---- MODULE Spec2Model ----
(***************************************************************************)
(* State-machine model of the market-microstructure feature engine of the  *)
(* stablecoin monitoring backend:                                          *)
(*   - AnomalyDetectionModel       (services/anomaly_model.py)             *)
(*   - MLDeviationCalculator cache (services/deviation_calculator.py)      *)
(*   - order-book aggregator       (services/liquidity_monitor/            *)
(*                                  aggregator.py)                         *)
(*   - FeatureEngineer             (services/feature_engineering.py)       *)
(*                                                                         *)
(* Numbers.  The code works on Python floats; the model works on integers  *)
(* in a fixed unit per quantity:                                           *)
(*   - anomaly features, anomaly scores, confidence: thousandths           *)
(*     (0.15 is 150, 5.5 is 5500, -0.35 is -350);                          *)
(*   - cache clock (time.time()): seconds;                                 *)
(*   - order-book prices, volumes, USD volumes: whole units;               *)
(*   - peg_deviation: 1e-4 percent (0.5 is 5000), the four decimals        *)
(*     calculate_peg_deviation rounds to;                                  *)
(*   - FeatureEngineer clock (datetime.utcnow()): ticks of 0.2 s;          *)
(*     deviation_duration: hundredths of a minute, the two decimals the    *)
(*     code rounds to.                                                     *)
(*   - books read by the FeatureEngineer: a volume unit is 400 dollars;    *)
(*     liquidity scores and order-book imbalances: 1e-4; prices handed to  *)
(*     compute_anomaly_features: 1e-4 dollars; percentage changes: exact   *)
(*     fractions.                                                          *)
(* Each component has its own specification; the variables of the other    *)
(* components stay at their initial values in it.                          *)
(***************************************************************************)
EXTENDS Integers, Sequences, FiniteSets, TLC

VARIABLES
    \* AnomalyDetectionModel
    model,          \* self.model: "None" or "IsolationForest"
    features,       \* the 8-feature vector handed to detect_anomaly
    detection,      \* <<>> or <<[scorer, result]>>: the last detect_anomaly call
    \* MLDeviationCalculator
    cache,            \* self.cache: cache key -> stored result
    cache_timestamps, \* self.cache_timestamps: cache key -> time.time() of the write
    clock,            \* time.time(), in seconds
    pc,               \* per caller, where its call stands: "idle" (none made),
                      \* "fetching" (awaiting the request), "hit" (returned the
                      \* cached entry), "computed" (returned a fresh result),
                      \* "raised" (ValueError: no price data)
    args,             \* per caller: <<>> or <<[stablecoin, period_days]>> of its call
    ret,              \* per caller: <<>> or <<result>> returned by its call
    n_calls,          \* per caller: compute_deviation_metrics calls made so far
    response,         \* per caller: <<>> or <<how the request of its call ended>>
    \* order-book aggregator
    orderbooks,       \* the argument of aggregate_orderbooks: exchange -> book
    agg_clock,        \* datetime.utcnow() as the aggregator reads it
    agg_calls,        \* the aggregate_orderbooks calls made on orderbooks, in order
    agg_metrics,      \* <<>> or <<the calculate_aggregated_metrics call made>>
    \* FeatureEngineer
    deviation_start_time, \* self.deviation_start_time: asset -> utcnow() at the start
    utc_clock,            \* datetime.utcnow(), in ticks of 0.2 s
    evaluation,           \* per asset: <<>> or <<the last calculate_deviation_duration call>>
    n_evals,              \* per asset: calculate_deviation_duration calls made so far
    orderbook,            \* the order book handed to the book features
    book_features,        \* <<>> or <<the features last computed from orderbook>>
    previous_liquidity,   \* self.previous_liquidity: asset -> liquidity depth
    previous_price,       \* self.previous_price: asset -> price
    historical_volumes,   \* self.historical_volumes: asset -> volumes kept
    anomaly_call,         \* per asset: <<>> or <<the last compute_anomaly_features call>>
    n_anomaly_calls,      \* per asset: compute_anomaly_features calls made so far
    thread_pc,            \* per thread: the statement its evaluation is at
    thread_call,          \* per thread: <<>> or <<the call it makes>>
    thread_frame,         \* per thread: the locals and return value of its call
    raw_book,             \* the argument of convert_volume_to_usd
    converted,            \* <<>> or <<the last convert_volume_to_usd call>>
    historical_liquidity, \* self.historical_liquidity: asset -> deque of depths
    series,               \* <<>> or <<the last get_liquidity_time_series call>>
    n_liquidity_calls,    \* per asset: compute_liquidity_features calls made so far
    volume_anomaly,       \* <<>> or <<the last calculate_volume_anomaly call>>
    risk_features         \* <<>> or <<the last compute_all_features call>>

anomaly_vars == <<model, features, detection>>

cache_vars == <<cache, cache_timestamps, clock, pc, args, ret, n_calls, response>>

agg_vars == <<orderbooks, agg_clock, agg_calls, agg_metrics>>

fe_vars == <<deviation_start_time, utc_clock, evaluation, n_evals>>

book_vars == <<orderbook, book_features>>

delta_vars == <<previous_liquidity, previous_price, historical_volumes,
                anomaly_call, n_anomaly_calls>>

thread_vars == <<thread_pc, thread_call, thread_frame>>

conv_vars == <<raw_book, converted>>

series_vars == <<historical_liquidity, series, n_liquidity_calls>>

window_vars == <<volume_anomaly, risk_features>>

engine_vars == <<book_vars, delta_vars, thread_vars, conv_vars, series_vars,
                 window_vars>>

vars == <<anomaly_vars, cache_vars, agg_vars, fe_vars, engine_vars>>

(***************************************************************************)
(* Helpers                                                                 *)
(***************************************************************************)
Abs(x) == IF x < 0 THEN -x ELSE x

Min(a, b) == IF a <= b THEN a ELSE b

Max(a, b) == IF a >= b THEN a ELSE b

\* Python's round(n / d) for d # 0, where n / d is never a tie.
RoundDiv(n, d) ==
    IF d > 0 THEN (2 * n + d) \div (2 * d)
    ELSE (2 * (-n) + (-d)) \div (2 * (-d))

(***************************************************************************)
(* AnomalyDetectionModel                                                   *)
(***************************************************************************)

\* The literal crisis vector of the module's self-test.
crisis_features ==
    [ liquidity_depth       |-> 150,
      liquidity_change_pct  |-> -350,
      volume_zscore         |-> 5500,
      price_change_pct      |-> 45,
      orderbook_imbalance   |-> -750,
      cross_exchange_spread |-> 15,
      volatility_spike      |-> 80,
      bid_ask_spread        |-> 8 ]

\* The vectors the model feeds to detect_anomaly: every threshold of the
\* rule table is met exactly, undershot and overshot by some value.
FeatureVectors ==
    [ liquidity_depth       : {100, 150, 300, 900},
      liquidity_change_pct  : {-350, -200},
      volume_zscore         : {3000, 4000, 5000, 5500, -4500},
      price_change_pct      : {10, 20, 45, 50, -60},
      orderbook_imbalance   : {-750, 700},
      cross_exchange_spread : {10, 15, 20, 25},
      volatility_spike      : {50, 80, 100, 120},
      bid_ask_spread        : {5, 8} ]

\* What the external scorer may answer: predict() and score_samples().
Predictions == {1, -1}

AnomalyScores == {-800, -700, -500, -300, -100}

Alert(type, severity) == [type |-> type, severity |-> severity]

When(cond, alert) == IF cond THEN <<alert>> ELSE <<>>

\* Mutation: low_liquidity is High up to and including 0.15.
identify_anomaly_types_inclusive(f) ==
       When(f.liquidity_change_pct < -200, Alert("liquidity_drop", "High"))
    \o When(f.liquidity_depth < 300,
            Alert("low_liquidity",
                  IF f.liquidity_depth <= 150 THEN "High" ELSE "Medium"))
    \o When(Abs(f.volume_zscore) > 3000,
            Alert("volume_spike",
                  IF Abs(f.volume_zscore) > 5000 THEN "High" ELSE "Medium"))
    \o When(Abs(f.volume_zscore) > 4000 /\ Abs(f.price_change_pct) > 10,
            Alert("whale_activity", "High"))
    \o When(Abs(f.price_change_pct) > 20,
            Alert("unusual_price_movement",
                  IF Abs(f.price_change_pct) > 50 THEN "High" ELSE "Medium"))
    \o When(Abs(f.orderbook_imbalance) > 700,
            Alert("orderbook_imbalance", "Medium"))
    \o When(f.cross_exchange_spread > 10,
            Alert("wide_spread",
                  IF f.cross_exchange_spread < 20 THEN "Medium" ELSE "High"))
    \o When(f.volatility_spike > 50,
            Alert("volatility_spike",
                  IF f.volatility_spike > 100 THEN "High" ELSE "Medium"))
    \o When(f.bid_ask_spread > 5, Alert("spread_widening", "Medium"))

\* Mutation: the imbalance and bid-ask spread rules fire on their thresholds.
identify_anomaly_types_on_threshold(f) ==
       When(f.liquidity_change_pct < -200, Alert("liquidity_drop", "High"))
    \o When(f.liquidity_depth < 300,
            Alert("low_liquidity",
                  IF f.liquidity_depth < 150 THEN "High" ELSE "Medium"))
    \o When(Abs(f.volume_zscore) > 3000,
            Alert("volume_spike",
                  IF Abs(f.volume_zscore) > 5000 THEN "High" ELSE "Medium"))
    \o When(Abs(f.volume_zscore) > 4000 /\ Abs(f.price_change_pct) > 10,
            Alert("whale_activity", "High"))
    \o When(Abs(f.price_change_pct) > 20,
            Alert("unusual_price_movement",
                  IF Abs(f.price_change_pct) > 50 THEN "High" ELSE "Medium"))
    \o When(Abs(f.orderbook_imbalance) >= 700,
            Alert("orderbook_imbalance", "Medium"))
    \o When(f.cross_exchange_spread > 10,
            Alert("wide_spread",
                  IF f.cross_exchange_spread < 20 THEN "Medium" ELSE "High"))
    \o When(f.volatility_spike > 50,
            Alert("volatility_spike",
                  IF f.volatility_spike > 100 THEN "High" ELSE "Medium"))
    \o When(f.bid_ask_spread >= 5, Alert("spread_widening", "Medium"))

\* _identify_anomaly_types: the alerts in the order the code appends them
\* (the message strings are left out).
identify_anomaly_types(f) ==
       When(f.liquidity_change_pct < -200, Alert("liquidity_drop", "High"))
    \o When(f.liquidity_depth < 300,
            Alert("low_liquidity",
                  IF f.liquidity_depth < 150 THEN "High" ELSE "Medium"))
    \o When(Abs(f.volume_zscore) > 3000,
            Alert("volume_spike",
                  IF Abs(f.volume_zscore) > 5000 THEN "High" ELSE "Medium"))
    \o When(Abs(f.volume_zscore) > 4000 /\ Abs(f.price_change_pct) > 10,
            Alert("whale_activity", "High"))
    \o When(Abs(f.price_change_pct) > 20,
            Alert("unusual_price_movement",
                  IF Abs(f.price_change_pct) > 50 THEN "High" ELSE "Medium"))
    \o When(Abs(f.orderbook_imbalance) > 700,
            Alert("orderbook_imbalance", "Medium"))
    \o When(f.cross_exchange_spread > 10,
            Alert("wide_spread",
                  IF f.cross_exchange_spread < 20 THEN "Medium" ELSE "High"))
    \o When(f.volatility_spike > 50,
            Alert("volatility_spike",
                  IF f.volatility_spike > 100 THEN "High" ELSE "Medium"))
    \o When(f.bid_ask_spread > 5, Alert("spread_widening", "Medium"))

\* Mutation: one rule that holds is enough for is_anomaly.
fallback_detection_any_rule(f) ==
    LET low   == f.liquidity_depth < 300
        spike == Abs(f.volume_zscore) > 3000
        move  == Abs(f.price_change_pct) > 20
        anomaly_count == (IF low THEN 1 ELSE 0) + (IF spike THEN 1 ELSE 0)
                         + (IF move THEN 1 ELSE 0)
        is_anomaly == anomaly_count >= 1
    IN  [ anomaly_score |-> IF is_anomaly THEN -500 ELSE 0,
          is_anomaly    |-> is_anomaly,
          severity      |-> IF anomaly_count >= 3 THEN "High"
                            ELSE IF anomaly_count >= 2 THEN "Medium" ELSE "Low",
          alerts        |->    When(low, Alert("low_liquidity", "High"))
                            \o When(spike, Alert("volume_spike", "Medium"))
                            \o When(move, Alert("price_movement", "High")),
          confidence    |-> 600 ]

\* _fallback_detection: the three-rule count used when no model is loaded.
fallback_detection(f) ==
    LET low   == f.liquidity_depth < 300
        spike == Abs(f.volume_zscore) > 3000
        move  == Abs(f.price_change_pct) > 20
        anomaly_count == (IF low THEN 1 ELSE 0) + (IF spike THEN 1 ELSE 0)
                         + (IF move THEN 1 ELSE 0)
        is_anomaly == anomaly_count >= 2
    IN  [ anomaly_score |-> IF is_anomaly THEN -500 ELSE 0,
          is_anomaly    |-> is_anomaly,
          severity      |-> IF anomaly_count >= 3 THEN "High"
                            ELSE IF anomaly_count >= 2 THEN "Medium" ELSE "Low",
          alerts        |->    When(low, Alert("low_liquidity", "High"))
                            \o When(spike, Alert("volume_spike", "Medium"))
                            \o When(move, Alert("price_movement", "High")),
          confidence    |-> 600 ]

\* detect_anomaly with a model loaded: prediction and anomaly_score are the
\* scorer's answers for the scaled vector.
scored_detection(f, prediction, anomaly_score) ==
    [ anomaly_score |-> anomaly_score,
      is_anomaly    |-> prediction = -1,
      severity      |-> IF anomaly_score < -700 THEN "High"
                        ELSE IF anomaly_score < -500 THEN "Medium"
                        ELSE IF anomaly_score < -300 THEN "Low"
                        ELSE "Normal",
      alerts        |-> identify_anomaly_types(f),
      confidence    |-> Min(Abs(anomaly_score) \div 2, 1000) ]

(***************************************************************************)
(* MLDeviationCalculator: the TTL cache around the price-history fetch     *)
(***************************************************************************)

\* Concurrent asyncio tasks calling compute_deviation_metrics.
Callers == {"c1", "c2"}

\* Symbols the callers pass: one of the coingecko_ids table, one that is not.
Stablecoins == {"usdt", "xyz"}

PeriodDays == {7}

coingecko_ids == {"usdt", "usdc", "dai", "busd", "frax", "tusd", "usdd"}

cache_ttl == 300

MaxClock == 600

MaxCalls == 2

\* What the CoinGecko request of a supported symbol may end in: status 200
\* with prices, status 200 with an empty price list, another status, or an
\* exception (timeout, connection error).
FetchOutcomes == {"ok", "ok_empty", "http_error", "exception"}

\* Price series, by content.  "walk" is the series the seeded generator
\* of this process yields; the market may have moved in the same way or in
\* another.
PriceSeries == {"walk", "market"}

\* cache_key = f"{stablecoin}_{period_days}d".  The text ends in _<int>d
\* and an int holds no underscore, so distinct pairs give distinct keys.
CacheKey(stablecoin, period_days) == <<stablecoin, period_days>>

\* Mutation: an entry is valid whatever its age.
is_cache_valid_forever(key) ==
    key \in DOMAIN cache

\* Mutation: the entry is stored without its write time.
set_cache_without_timestamp(key, data) ==
    /\ cache' = [k \in DOMAIN cache \cup {key} |->
                    IF k = key THEN data ELSE cache[k]]
    /\ cache_timestamps' = cache_timestamps

\* Mutation: the age test is reversed.
is_cache_valid_reversed(key) ==
    /\ key \in DOMAIN cache
    /\ clock - cache_timestamps[key] > cache_ttl

\* _is_cache_valid.  cache_timestamps.get(key, 0) never takes its default:
\* both maps are written together.
is_cache_valid(key) ==
    /\ key \in DOMAIN cache
    /\ clock - (IF key \in DOMAIN cache_timestamps
                THEN cache_timestamps[key] ELSE 0) < cache_ttl

\* _get_from_cache: <<>> stands for None.
get_from_cache(key) == IF is_cache_valid(key) THEN <<cache[key]>> ELSE <<>>

\* _generate_synthetic_prices: days * 24 hourly points of a seeded walk.
generate_synthetic_prices(stablecoin, days) ==
    [source |-> "synthetic", series |-> "walk", points |-> Max(days * 24, 0)]

\* fetch_historical_prices.  An unsupported symbol raises ValueError inside
\* the try block; `except Exception` catches it like any request failure
\* and the function goes on to the synthetic series.
\* body is the series a 200 response carries.
fetch_historical_prices(stablecoin, days, outcome, body) ==
    IF stablecoin \notin coingecko_ids
    THEN generate_synthetic_prices(stablecoin, days)
    ELSE IF outcome = "ok"
    THEN [source |-> "coingecko", series |-> body, points |-> days * 24]
    ELSE IF outcome = "ok_empty"
    THEN [source |-> "coingecko", series |-> body, points |-> 0]
    ELSE generate_synthetic_prices(stablecoin, days)

\* The result dict built from a price series: data and metrics are
\* computed from the prices of the series alone (calculate_ml_deviation,
\* calculate_metrics), and no entry is made from where the series came from.
deviation_result(stablecoin, period_days, prices) ==
    [ id          |-> stablecoin,
      period      |-> period_days,
      data        |-> prices.series,
      metrics     |-> prices.series,
      timestamp   |-> clock,
      data_points |-> prices.points,
      ml_enabled  |-> FALSE ]

\* _set_cache
set_cache(key, data) ==
    /\ cache' = [k \in DOMAIN cache \cup {key} |->
                    IF k = key THEN data ELSE cache[k]]
    /\ cache_timestamps' = [k \in DOMAIN cache_timestamps \cup {key} |->
                               IF k = key THEN clock ELSE cache_timestamps[k]]

\* compute_deviation_metrics from the fetched prices on: raise on an empty
\* series, otherwise compute, store and return.
finish_compute(c, stablecoin, period_days, prices) ==
    IF prices.points = 0
    THEN /\ pc' = [pc EXCEPT ![c] = "raised"]
         /\ ret' = [ret EXCEPT ![c] = <<>>]
         /\ UNCHANGED <<cache, cache_timestamps>>
    ELSE LET result == deviation_result(stablecoin, period_days, prices)
         IN  /\ set_cache(CacheKey(stablecoin, period_days), result)
             /\ pc' = [pc EXCEPT ![c] = "computed"]
             /\ ret' = [ret EXCEPT ![c] = <<result>>]

\* compute_deviation_metrics up to its first suspension point.  A hit
\* returns the stored result.  On a miss the coroutine awaits the CoinGecko
\* request; for an unsupported symbol fetch_historical_prices never reaches
\* the request, so the call runs to its end without yielding.
Call(c, stablecoin, period_days) ==
    /\ pc[c] # "fetching"
    /\ n_calls[c] < MaxCalls
    /\ n_calls' = [n_calls EXCEPT ![c] = @ + 1]
    /\ args' = [args EXCEPT ![c] =
                   <<[stablecoin |-> stablecoin, period_days |-> period_days]>>]
    /\ LET cached == get_from_cache(CacheKey(stablecoin, period_days))
       IN  IF cached # <<>>
           THEN /\ pc' = [pc EXCEPT ![c] = "hit"]
                /\ ret' = [ret EXCEPT ![c] = cached]
                /\ UNCHANGED <<cache, cache_timestamps>>
           ELSE IF stablecoin \notin coingecko_ids
           THEN finish_compute(c, stablecoin, period_days,
                    fetch_historical_prices(stablecoin, period_days, "exception", "walk"))
           ELSE /\ pc' = [pc EXCEPT ![c] = "fetching"]
                /\ ret' = [ret EXCEPT ![c] = <<>>]
                /\ UNCHANGED <<cache, cache_timestamps>>
    /\ response' = [response EXCEPT ![c] = <<>>]
    /\ UNCHANGED <<clock, anomaly_vars, agg_vars, fe_vars, engine_vars>>

\* The awaited request of caller c ends; the rest of
\* compute_deviation_metrics runs without another suspension.
FetchDone(c) ==
    /\ pc[c] = "fetching"
    /\ \E outcome \in FetchOutcomes, body \in PriceSeries :
          LET a == args[c][1]
          IN  /\ finish_compute(c, a.stablecoin, a.period_days,
                     fetch_historical_prices(a.stablecoin, a.period_days, outcome, body))
              /\ response' = [response EXCEPT ![c] = <<outcome>>]
    /\ UNCHANGED <<clock, args, n_calls, anomaly_vars, agg_vars, fe_vars, engine_vars>>

\* clear_cache
ClearCache ==
    /\ cache' = <<>>
    /\ cache_timestamps' = <<>>
    /\ UNCHANGED <<clock, pc, args, ret, n_calls, response,
                   anomaly_vars, agg_vars, fe_vars, engine_vars>>

\* Time passes.
Tick ==
    /\ \E d \in {100, 300} :
          /\ clock + d <= MaxClock
          /\ clock' = clock + d
    /\ UNCHANGED <<cache, cache_timestamps, pc, args, ret, n_calls, response,
                   anomaly_vars, agg_vars, fe_vars, engine_vars>>

(***************************************************************************)
(* Order-book aggregator                                                   *)
(***************************************************************************)

\* The exchanges of the orderbooks dict, in its iteration order.
ExchangeOrder == <<"binance", "kraken">>

Sides == {"bids", "asks"}

\* Raw levels an exchange may report.  A level without volume_usd is one
\* that convert_volume_to_usd has not been applied to.
RawLevels ==
    { [price |-> 1, volume |-> 1],
      [price |-> 2, volume |-> 1],
      [price |-> 3, volume |-> 2],
      [price |-> 2, volume |-> 0],
      [price |-> 3, volume |-> 1, volume_usd |-> 5] }

MaxLevels == 3

MaxDepth == 3

\* orderbook.get(side, []): an absent side reads as an empty one.
RawSide(books, exchange, side) ==
    IF exchange \in DOMAIN books THEN books[exchange][side] ELSE <<>>

\* bid.get("volume_usd", bid["volume"] * bid["price"])
LevelUsd(level) ==
    IF "volume_usd" \in DOMAIN level THEN level.volume_usd
    ELSE level.volume * level.price

RECURSIVE CollectSide(_, _, _)
\* The loop over orderbooks.items() filling all_bids / all_asks: exchange
\* after exchange from index i of ExchangeOrder on.
CollectSide(books, side, i) ==
    IF i > Len(ExchangeOrder) THEN <<>>
    ELSE LET exchange == ExchangeOrder[i]
             raw == RawSide(books, exchange, side)
         IN  [k \in 1..Len(raw) |->
                 [price |-> raw[k].price, volume_usd |-> LevelUsd(raw[k]),
                  exchange |-> exchange]]
             \o CollectSide(books, side, i + 1)

\* True when a sorts before b (reverse: descending price).
Before(a, b, reverse) == IF reverse THEN a.price > b.price ELSE a.price < b.price

RECURSIVE SortByPrice(_, _)
\* list.sort(key=price, reverse=...): a stable sort, here by insertion of
\* the last element behind every element that does not sort after it.
SortByPrice(orders, reverse) ==
    IF orders = <<>> THEN <<>>
    ELSE LET n == Len(orders)
             last == orders[n]
             front == SortByPrice(SubSeq(orders, 1, n - 1), reverse)
             keep == Cardinality({k \in 1..Len(front) :
                                     ~Before(last, front[k], reverse)})
         IN  SubSeq(front, 1, keep) \o <<last>> \o SubSeq(front, keep + 1, Len(front))

RECURSIVE SumUsd(_)
SumUsd(levels) ==
    IF levels = <<>> THEN 0
    ELSE levels[1].volume_usd + SumUsd(Tail(levels))

RECURSIVE aggregate_by_price_overwriting(_)
\* Mutation: a repeated price overwrites the level instead of adding to it.
aggregate_by_price_overwriting(orders) ==
    IF orders = <<>> THEN <<>>
    ELSE LET n == Len(orders)
             order == orders[n]
             price_map == aggregate_by_price_overwriting(SubSeq(orders, 1, n - 1))
         IN  IF \E k \in 1..Len(price_map) : price_map[k].price = order.price
             THEN [k \in 1..Len(price_map) |->
                      IF price_map[k].price = order.price
                      THEN [price_map[k] EXCEPT !.volume_usd = order.volume_usd]
                      ELSE price_map[k]]
             ELSE Append(price_map,
                         [price |-> order.price, volume_usd |-> order.volume_usd])

RECURSIVE aggregate_by_price(_)
\* _aggregate_by_price: price_map is a dict, so its values come out in the
\* order in which each price was first met.
aggregate_by_price(orders) ==
    IF orders = <<>> THEN <<>>
    ELSE LET n == Len(orders)
             order == orders[n]
             price_map == aggregate_by_price(SubSeq(orders, 1, n - 1))
         IN  IF \E k \in 1..Len(price_map) : price_map[k].price = order.price
             THEN [k \in 1..Len(price_map) |->
                      IF price_map[k].price = order.price
                      THEN [price_map[k] EXCEPT
                               !.volume_usd = @ + order.volume_usd]
                      ELSE price_map[k]]
             ELSE Append(price_map,
                         [price |-> order.price, volume_usd |-> 0 + order.volume_usd])

\* Mutation: cumulative_usd is the level's own volume, not the running sum.
with_cumulative_not_running(orders) ==
    [k \in 1..Len(orders) |->
        [price |-> orders[k].price, volume_usd |-> orders[k].volume_usd,
         cumulative_usd |-> orders[k].volume_usd]]

\* The first loop of _sample_orderbook_side: orders_with_cumulative.
with_cumulative(orders) ==
    [k \in 1..Len(orders) |->
        [price |-> orders[k].price, volume_usd |-> orders[k].volume_usd,
         cumulative_usd |-> SumUsd(SubSeq(orders, 1, k))]]

\* _sample_orderbook_side divides len(orders) by depth_levels once the side
\* is longer than depth_levels: ZeroDivisionError for depth_levels = 0.
sample_raises(orders, depth_levels) ==
    /\ orders # <<>>
    /\ Len(orders) > depth_levels
    /\ depth_levels = 0

RECURSIVE SampleFrom(_, _, _)
\* The sampling loop from i on: idx = int(i * step) with step = len /
\* depth_levels.  For sides of fewer than 30 levels the float product
\* truncates to the exact quotient (i * len) div depth_levels.
SampleFrom(owc, depth_levels, i) ==
    IF i >= depth_levels THEN <<>>
    ELSE LET idx == (i * Len(owc)) \div depth_levels
         IN  (IF idx < Len(owc) THEN <<owc[idx + 1]>> ELSE <<>>)
             \o SampleFrom(owc, depth_levels, i + 1)

\* _sample_orderbook_side, where it does not raise.
sample_orderbook_side(orders, depth_levels) ==
    IF orders = <<>> THEN <<>>
    ELSE LET owc == with_cumulative(orders)
         IN  IF Len(owc) <= depth_levels THEN owc
             ELSE SampleFrom(owc, depth_levels, 0)

\* The local aggregated_bids / aggregated_asks of aggregate_orderbooks.
aggregated_side(books, side) ==
    aggregate_by_price(SortByPrice(CollectSide(books, side, 1), side = "bids"))

\* Mutation: aggregated_at is not taken from the clock.
aggregate_orderbooks_fixed_stamp(books, depth_levels, now) ==
    [ bids  |-> sample_orderbook_side(aggregated_side(books, "bids"), depth_levels),
      asks  |-> sample_orderbook_side(aggregated_side(books, "asks"), depth_levels),
      per_exchange |->
          [e \in DOMAIN books |->
              [bids |-> SubSeq(books[e].bids, 1, Min(10, Len(books[e].bids))),
               asks |-> SubSeq(books[e].asks, 1, Min(10, Len(books[e].asks)))]],
      aggregated_at |-> 0 ]

\* aggregate_orderbooks, where it returns; now is datetime.utcnow().
aggregate_orderbooks(books, depth_levels, now) ==
    IF DOMAIN books = {}
    THEN [bids |-> <<>>, asks |-> <<>>, per_exchange |-> <<>>, aggregated_at |-> now]
    ELSE [ bids  |-> sample_orderbook_side(aggregated_side(books, "bids"), depth_levels),
           asks  |-> sample_orderbook_side(aggregated_side(books, "asks"), depth_levels),
           per_exchange |->
               [e \in DOMAIN books |->
                   [bids |-> SubSeq(books[e].bids, 1, Min(10, Len(books[e].bids))),
                    asks |-> SubSeq(books[e].asks, 1, Min(10, Len(books[e].asks)))]],
           aggregated_at |-> now ]

\* aggregate_orderbooks raises when sampling either side does.
aggregate_raises(books, depth_levels) ==
    /\ DOMAIN books # {}
    /\ \/ sample_raises(aggregated_side(books, "bids"), depth_levels)
       \/ sample_raises(aggregated_side(books, "asks"), depth_levels)

\* One call as the model records it: its argument, the clock it read, the
\* merged ladders it built, and what it returned (<<>> when it raised).
CallRecord(books, depth_levels, now) ==
    [ depth_levels    |-> depth_levels,
      at              |-> now,
      aggregated_bids |-> aggregated_side(books, "bids"),
      aggregated_asks |-> aggregated_side(books, "asks"),
      out             |-> IF aggregate_raises(books, depth_levels) THEN <<>>
                          ELSE <<aggregate_orderbooks(books, depth_levels, now)>> ]

TotalLevels(books) ==
    LET n(e) == Len(RawSide(books, e, "bids")) + Len(RawSide(books, e, "asks"))
    IN  n(ExchangeOrder[1]) + n(ExchangeOrder[2])

\* The caller hands over one more raw level of an exchange's book.
AddLevel(exchange, side, level) ==
    /\ agg_calls = <<>>
    /\ TotalLevels(orderbooks) < MaxLevels
    /\ orderbooks' =
          [e \in DOMAIN orderbooks \cup {exchange} |->
              [s \in Sides |->
                  IF e = exchange /\ s = side
                  THEN Append(RawSide(orderbooks, e, s), level)
                  ELSE RawSide(orderbooks, e, s)]]
    /\ UNCHANGED <<agg_clock, agg_calls, agg_metrics,
                   anomaly_vars, cache_vars, fe_vars, engine_vars>>

\* aggregate_orderbooks(orderbooks, depth_levels): the first call.
Aggregate(depth_levels) ==
    /\ agg_calls = <<>>
    /\ agg_calls' = <<CallRecord(orderbooks, depth_levels, agg_clock)>>
    /\ UNCHANGED <<orderbooks, agg_clock, agg_metrics,
                   anomaly_vars, cache_vars, fe_vars, engine_vars>>

\* The same call made again, at once or after the clock has moved on.
AggregateAgain ==
    /\ Len(agg_calls) = 1
    /\ \E later \in {0, 1} :
          /\ agg_clock' = agg_clock + later
          /\ agg_calls' = Append(agg_calls,
                 CallRecord(orderbooks, agg_calls[1].depth_levels, agg_clock'))
    /\ UNCHANGED <<orderbooks, agg_metrics,
                   anomaly_vars, cache_vars, fe_vars, engine_vars>>

\* bids[-1].get("cumulative_usd", 0)
last_cumulative_usd(levels) ==
    IF "cumulative_usd" \in DOMAIN levels[Len(levels)]
    THEN levels[Len(levels)].cumulative_usd ELSE 0

\* calculate_aggregated_metrics(aggregated_orderbook).  Prices and dollar
\* amounts are whole, so rounding them to 2 or 6 decimals changes nothing;
\* mid_price is in half dollars and spread_bps in 0.01 basis points.
calculate_aggregated_metrics(aggregated_orderbook) ==
    LET bids == aggregated_orderbook.bids
        asks == aggregated_orderbook.asks
    IN  IF bids = <<>> \/ asks = <<>>
        THEN [ total_bid_liquidity_usd |-> 0,
               total_ask_liquidity_usd |-> 0,
               total_liquidity_usd     |-> 0,
               spread                  |-> 0,
               spread_bps              |-> 0,
               mid_price               |-> 2 ]
        ELSE [ total_bid_liquidity_usd |-> last_cumulative_usd(bids),
               total_ask_liquidity_usd |-> last_cumulative_usd(asks),
               total_liquidity_usd     |->
                   last_cumulative_usd(bids) + last_cumulative_usd(asks),
               spread                  |-> asks[1].price - bids[1].price,
               spread_bps              |->
                   RoundDiv(2000000 * (asks[1].price - bids[1].price),
                            bids[1].price + asks[1].price),
               mid_price               |-> bids[1].price + asks[1].price,
               best_bid                |-> bids[1].price,
               best_ask                |-> asks[1].price ]

\* The caller computes the summary metrics of the book the last call
\* returned.
CalculateMetrics ==
    /\ agg_calls # <<>>
    /\ agg_metrics = <<>>
    /\ agg_calls[Len(agg_calls)].out # <<>>
    /\ agg_metrics' =
          << [ call    |-> Len(agg_calls),
               metrics |-> calculate_aggregated_metrics(
                               agg_calls[Len(agg_calls)].out[1]) ] >>
    /\ UNCHANGED <<orderbooks, agg_clock, agg_calls,
                   anomaly_vars, cache_vars, fe_vars, engine_vars>>

(***************************************************************************)
(* FeatureEngineer                                                         *)
(***************************************************************************)

\* Assets whose rolling state the engineer keeps.
Assets == {"usdt", "usdc"}

\* peg_deviation values fed to calculate_deviation_duration, in 1e-4 percent:
\* at peg, exactly on the threshold, just over it, and far below the peg.
PegDeviations == {0, 5000, 5001, -12000}

\* The default of the threshold parameter, 0.5 percent.
threshold == 5000

MaxUtc == 6

MaxEvals == 4

\* Evaluations made so far, over all assets.
TotalEvals == n_evals["usdt"] + n_evals["usdc"]

\* round(seconds / 60, 2) in hundredths of a minute, for an interval of
\* `ticks` ticks of 0.2 s: round(ticks / 3), and a third is never a half.
duration_minutes(ticks) == (ticks + 1) \div 3

\* Mutation: an in-range evaluation keeps the recorded start time.
start_time_after_never_cleared(stablecoin, peg_deviation) ==
    IF Abs(peg_deviation) > threshold /\ stablecoin \notin DOMAIN deviation_start_time
    THEN [a \in DOMAIN deviation_start_time \cup {stablecoin} |->
             IF a = stablecoin THEN utc_clock ELSE deviation_start_time[a]]
    ELSE deviation_start_time

\* Mutation: every over-threshold evaluation records the clock as the start.
start_time_after_always_restarts(stablecoin, peg_deviation) ==
    IF Abs(peg_deviation) > threshold
    THEN [a \in DOMAIN deviation_start_time \cup {stablecoin} |->
             IF a = stablecoin THEN utc_clock ELSE deviation_start_time[a]]
    ELSE [a \in DOMAIN deviation_start_time \ {stablecoin} |->
             deviation_start_time[a]]

\* self.deviation_start_time after calculate_deviation_duration: set to the
\* clock if the deviation is over the threshold and no start is recorded,
\* popped if the deviation is in range.
start_time_after(stablecoin, peg_deviation) ==
    IF Abs(peg_deviation) > threshold
    THEN IF stablecoin \notin DOMAIN deviation_start_time
         THEN [a \in DOMAIN deviation_start_time \cup {stablecoin} |->
                  IF a = stablecoin THEN utc_clock ELSE deviation_start_time[a]]
         ELSE deviation_start_time
    ELSE [a \in DOMAIN deviation_start_time \ {stablecoin} |->
             deviation_start_time[a]]

\* Deviation episodes (Idle to Tracking transitions) of an asset up to its
\* last evaluation.
EpisodesSoFar(stablecoin) ==
    IF evaluation[stablecoin] = <<>> THEN 0 ELSE evaluation[stablecoin][1].episode

\* The body of calculate_deviation_duration(peg_deviation, stablecoin).
\* The duration is taken from a second utcnow() read; the call does not
\* suspend, so that
\* read is at most one tick after the first.  The record kept of the call:
\* its argument, the clock at its first read (called) and at its last (at),
\* whether a start time was recorded when it began (tracking), the number
\* of the episode it belongs to, whether its deviation has the sign opposite
\* to that of the asset's evaluation before it (reversed), and the duration
\* it returned.
EvaluateDuration(stablecoin, peg_deviation) ==
    /\ TotalEvals < MaxEvals
    /\ n_evals' = [n_evals EXCEPT ![stablecoin] = @ + 1]
    /\ deviation_start_time' = start_time_after(stablecoin, peg_deviation)
    /\ \E elapsed \in {0, 1} :
          /\ utc_clock + elapsed <= MaxUtc
          /\ utc_clock' = IF Abs(peg_deviation) > threshold
                          THEN utc_clock + elapsed ELSE utc_clock
          /\ evaluation' = [evaluation EXCEPT ![stablecoin] =
                << [ peg_deviation |-> peg_deviation,
                     called   |-> utc_clock,
                     tracking |-> stablecoin \in DOMAIN deviation_start_time,
                     episode  |-> EpisodesSoFar(stablecoin)
                                  + (IF Abs(peg_deviation) > threshold
                                        /\ stablecoin \notin DOMAIN deviation_start_time
                                     THEN 1 ELSE 0),
                     at       |-> utc_clock',
                     reversed |-> /\ evaluation[stablecoin] # <<>>
                                  /\ peg_deviation # 0
                                  /\ (evaluation[stablecoin][1].peg_deviation < 0)
                                         = (peg_deviation > 0)
                                  /\ evaluation[stablecoin][1].peg_deviation # 0,
                     duration |-> IF Abs(peg_deviation) > threshold
                                  THEN duration_minutes(
                                           utc_clock'
                                           - deviation_start_time'[stablecoin])
                                  ELSE 0 ] >>]

\* calculate_deviation_duration(peg_deviation, stablecoin), called on its own.
CalculateDeviationDuration(stablecoin, peg_deviation) ==
    /\ EvaluateDuration(stablecoin, peg_deviation)
    /\ UNCHANGED <<anomaly_vars, cache_vars, agg_vars, engine_vars>>

\* Time passes between evaluations.
TickUtc ==
    /\ utc_clock < MaxUtc
    /\ utc_clock' = utc_clock + 1
    /\ UNCHANGED <<deviation_start_time, evaluation, n_evals,
                   anomaly_vars, cache_vars, agg_vars, engine_vars>>

(***************************************************************************)
(* FeatureEngineer: order-book features                                    *)
(*                                                                         *)
(* A volume unit of a book read by the FeatureEngineer is 400 (dollars),   *)
(* so that round(total / 10_000_000, 4) never meets a tie; liquidity       *)
(* scores and imbalances are in 1e-4, the four decimals the code rounds    *)
(* to.                                                                     *)
(***************************************************************************)
MaxBookLevels == 2

\* Levels as an exchange reports them: {price, volume}; one of them is
\* malformed, with a negative volume.
BookLevels == { [price |-> 1, volume |-> v] : v \in -1..3 }

BookSides ==
    UNION { [1..n -> BookLevels] : n \in 0..MaxBookLevels }

\* Books handed to aggregate_orderbooks to produce the aggregated books
\* below.
SampleBooks ==
    { [binance |-> [bids |-> <<[price |-> 2, volume |-> 1], [price |-> 1, volume |-> 1]>>,
                    asks |-> <<[price |-> 3, volume |-> 2]>>]],
      [binance |-> [bids |-> <<[price |-> 2, volume |-> 1]>>,
                    asks |-> <<[price |-> 3, volume |-> 1, volume_usd |-> 5]>>],
       kraken  |-> [bids |-> <<[price |-> 1, volume |-> 1]>>,
                    asks |-> <<[price |-> 3, volume |-> 2]>>]],
      [kraken  |-> [bids |-> <<[price |-> 2, volume |-> 1]>>,
                    asks |-> <<>>]] }

\* The bids and asks of what aggregate_orderbooks returns: levels of
\* {price, volume_usd, cumulative_usd}.
AggregatedBooks ==
    { [bids |-> aggregate_orderbooks(books, depth_levels, 0).bids,
       asks |-> aggregate_orderbooks(books, depth_levels, 0).asks] :
          books \in SampleBooks, depth_levels \in 1..2 }

OrderBooks ==
    { [bids |-> b, asks |-> a] : b \in BookSides, a \in BookSides }
        \cup AggregatedBooks

\* The depth_levels arguments calculate_liquidity_score is called with: the
\* default 10, the 50 of compute_liquidity_features, and 1.
ScoreDepths == {1, 10, 50}

\* level.get("volume", 0)
LevelVolume(level) ==
    IF "volume" \in DOMAIN level THEN level.volume ELSE 0

RECURSIVE SumVolume(_)
\* sum(level.get("volume", 0) for level in levels)
SumVolume(levels) ==
    IF levels = <<>> THEN 0
    ELSE LevelVolume(levels[1]) + SumVolume(Tail(levels))

\* levels[:depth_levels]
TopLevels(levels, depth_levels) ==
    SubSeq(levels, 1, Min(depth_levels, Len(levels)))

\* calculate_liquidity_score, in 1e-4: 0.1 for a book with an empty side,
\* else round(total_depth / 10_000_000, 4).
calculate_liquidity_score(book, depth_levels) ==
    IF book.bids = <<>> \/ book.asks = <<>>
    THEN 1000
    ELSE LET bid_depth == SumVolume(TopLevels(book.bids, depth_levels))
             ask_depth == SumVolume(TopLevels(book.asks, depth_levels))
             total_depth == bid_depth + ask_depth
         IN  RoundDiv(400 * total_depth, 1000)

\* Mutation: the difference is divided by the bid volume, not by the total.
calculate_orderbook_imbalance_over_bids(book) ==
    IF book.bids = <<>> /\ book.asks = <<>> THEN 0
    ELSE LET bid_volume == SumVolume(book.bids)
             ask_volume == SumVolume(book.asks)
         IN  IF bid_volume + ask_volume = 0 THEN 0
             ELSE RoundDiv(10000 * (bid_volume - ask_volume), Max(bid_volume, 1))

\* calculate_orderbook_imbalance, in 1e-4.
calculate_orderbook_imbalance(book) ==
    IF book.bids = <<>> /\ book.asks = <<>> THEN 0
    ELSE LET bid_volume == SumVolume(book.bids)
             ask_volume == SumVolume(book.asks)
             total_volume == bid_volume + ask_volume
         IN  IF total_volume = 0 THEN 0
             ELSE RoundDiv(10000 * (bid_volume - ask_volume), total_volume)

\* The two features computed from the book in hand.
ComputeBookFeatures(depth_levels) ==
    /\ book_features' =
          << [ depth_levels        |-> depth_levels,
               liquidity_score     |-> calculate_liquidity_score(orderbook, depth_levels),
               orderbook_imbalance |-> calculate_orderbook_imbalance(orderbook) ] >>
    /\ UNCHANGED <<orderbook, delta_vars, thread_vars, conv_vars, window_vars, series_vars,
                   anomaly_vars, cache_vars, agg_vars, fe_vars>>

(***************************************************************************)
(* FeatureEngineer: compute_anomaly_features                               *)
(*                                                                         *)
(* Prices are in 1e-4 dollars.  A percentage change is an unrounded float  *)
(* quotient in the code; the model keeps it as the exact fraction.         *)
(***************************************************************************)
MaxAnomalyCalls == 3

\* Books handed to compute_anomaly_features: one with an empty side (score
\* 0.1), one without volume (score 0), and two with different depths.
FeatureBooks ==
    { [bids |-> <<>>, asks |-> <<[price |-> 1, volume |-> 1]>>],
      [bids |-> <<[price |-> 1, volume |-> 0]>>, asks |-> <<[price |-> 1, volume |-> 0]>>],
      [bids |-> <<[price |-> 1, volume |-> 3]>>, asks |-> <<[price |-> 1, volume |-> 2]>>],
      [bids |-> <<[price |-> 1, volume |-> 3], [price |-> 1, volume |-> 3]>>,
       asks |-> <<[price |-> 1, volume |-> 3], [price |-> 1, volume |-> 2]>>] }

CurrentPrices == {0, 9990, 10000}

\* ohlcv_history arguments: too short to be used (fewer than 10 candles),
\* and ten candles of equal volume.
OhlcvHistories ==
    { <<>>, [k \in 1..10 |-> [volume_traded |-> 5]] }

TotalAnomalyCalls == n_anomaly_calls["usdt"] + n_anomaly_calls["usdc"]

\* The float n / d.
Ratio(n, d) == IF n = 0 THEN [num |-> 0, den |-> 1] ELSE [num |-> n, den |-> d]

\* Mutation: the value is written under every key of the dict.
put_under_every_key(store, key, value) ==
    [k \in DOMAIN store \cup {key} |-> value]

\* store[key] = value on a dict
Put(store, key, value) ==
    [k \in DOMAIN store \cup {key} |-> IF k = key THEN value ELSE store[k]]

\* Mutation: the stored value is overwritten before the change is computed
\* from it.
change_pct_after_write(store, stablecoin, current) ==
    IF Put(store, stablecoin, current)[stablecoin] > 0
    THEN Ratio(current - Put(store, stablecoin, current)[stablecoin],
               Put(store, stablecoin, current)[stablecoin])
    ELSE Ratio(0, 1)

\* liquidity_change_pct and price_change_pct: 0.0 unless a positive
\* previous value is stored for the asset.
change_pct(store, stablecoin, current) ==
    IF stablecoin \in DOMAIN store /\ store[stablecoin] > 0
    THEN Ratio(current - store[stablecoin], store[stablecoin])
    ELSE Ratio(0, 1)

\* self.historical_volumes after calculate_volume_anomaly: untouched for
\* fewer than 10 candles, else the volumes of the last 1440 candles.
volumes_after(ohlcv_history, stablecoin) ==
    IF Len(ohlcv_history) < 10
    THEN historical_volumes
    ELSE Put(historical_volumes, stablecoin,
             LET volumes == [k \in 1..Len(ohlcv_history) |->
                                ohlcv_history[k].volume_traded]
             IN  SubSeq(volumes, Max(Len(volumes) - 1440, 0) + 1, Len(volumes)))

(***************************************************************************)
(* FeatureEngineer: the volume anomaly score                               *)
(*                                                                         *)
(* Volumes are whole numbers; the score is in 1e-4, the four decimals the  *)
(* code rounds to.  The windows of more than 60 candles used here have a   *)
(* rational standard deviation, so the quotient is the one numpy computes. *)
(***************************************************************************)
MaxVolume == 2

\* candle.get("volume_traded", 0) for candle in ohlcv_history
volumes_of(ohlcv_history) ==
    [k \in 1..Len(ohlcv_history) |->
        IF "volume_traded" \in DOMAIN ohlcv_history[k]
        THEN ohlcv_history[k].volume_traded ELSE 0]

RECURSIVE SumBetween(_, _, _)
\* sum(values[lo-1:hi])
SumBetween(values, lo, hi) ==
    IF lo > hi THEN 0
    ELSE IF lo = hi THEN values[lo]
    ELSE SumBetween(values, lo, (lo + hi) \div 2)
         + SumBetween(values, (lo + hi) \div 2 + 1, hi)

Sum(values) == SumBetween(values, 1, Len(values))

Squares(values) == [k \in 1..Len(values) |-> values[k] * values[k]]

RECURSIVE SqrtBetween(_, _, _)
\* The largest r in lo..hi with r * r <= n, where lo * lo <= n.
SqrtBetween(n, lo, hi) ==
    IF lo = hi THEN lo
    ELSE IF ((lo + hi + 1) \div 2) * ((lo + hi + 1) \div 2) <= n
         THEN SqrtBetween(n, (lo + hi + 1) \div 2, hi)
         ELSE SqrtBetween(n, lo, (lo + hi + 1) \div 2 - 1)

\* The whole part of the square root of n >= 0.
Sqrt(n) == SqrtBetween(n, 0, Min(n, 46340))

\* Mutation: the recent volumes are the last 30 candles.
recent_volumes_last_thirty(volumes) ==
    IF Len(volumes) >= 30
    THEN SubSeq(volumes, Len(volumes) - 29, Len(volumes))
    ELSE volumes

\* volumes[-60:] if len(volumes) >= 60 else volumes: the candles whose
\* mean is current_volume.
recent_volumes(volumes) ==
    IF Len(volumes) >= 60
    THEN SubSeq(volumes, Len(volumes) - 59, Len(volumes))
    ELSE volumes

\* len(volumes)^2 * np.var(volumes)
SquaredSpread(volumes) ==
    Len(volumes) * Sum(Squares(volumes)) - Sum(volumes) * Sum(volumes)

\* The value calculate_volume_anomaly returns: 0.0 for fewer than 10
\* candles or a zero standard deviation, else
\* round((mean(recent) - mean(volumes)) / std(volumes), 4).
calculate_volume_anomaly(ohlcv_history) ==
    LET volumes == volumes_of(ohlcv_history)
        recent  == recent_volumes(volumes)
    IN  IF Len(ohlcv_history) < 10 THEN 0
        ELSE IF SquaredSpread(volumes) = 0 THEN 0
        ELSE RoundDiv(10000 * (Len(volumes) * Sum(recent)
                                  - Len(recent) * Sum(volumes)),
                      Len(recent) * Sqrt(SquaredSpread(volumes)))

\* A window of n candles, the first spike of them with one volume and the
\* others with another.
Candles(n, spike, first, rest) ==
    [k \in 1..n |-> [volume_traded |-> IF k <= spike THEN first ELSE rest]]

\* ohlcv_history arguments of at most 60 candles: lengths around the
\* thresholds 10 and 60, with flat, early and late volume.
ShortWindows ==
    { Candles(n, spike, first, rest) :
        n \in {0, 9, 10, 59, 60}, spike \in {5},
        first \in {0, MaxVolume}, rest \in {0, MaxVolume} }

\* ohlcv_history arguments of more than 60 candles.
LongWindows ==
    { Candles(n, spike, first, rest) :
        n \in {61}, spike \in {25},
        first \in {0, MaxVolume}, rest \in {0, MaxVolume} }
    \cup
    { Candles(n, spike, first, rest) :
        n \in {65}, spike \in {1},
        first \in {0, MaxVolume}, rest \in {0, MaxVolume} }

VolumeWindows == ShortWindows \cup LongWindows

\* calculate_volume_anomaly(ohlcv_history, stablecoin).  The record kept of
\* the call holds its arguments and the score returned.
CalculateVolumeAnomaly(stablecoin, ohlcv_history) ==
    /\ historical_volumes' = volumes_after(ohlcv_history, stablecoin)
    /\ volume_anomaly' =
          << [ stablecoin    |-> stablecoin,
               ohlcv_history |-> ohlcv_history,
               score         |-> calculate_volume_anomaly(ohlcv_history) ] >>
    /\ UNCHANGED <<previous_liquidity, previous_price, anomaly_call,
                   n_anomaly_calls, risk_features, book_vars, thread_vars,
                   conv_vars, series_vars, anomaly_vars, cache_vars, agg_vars,
                   fe_vars>>

\* compute_anomaly_features(current_price, orderbook, ohlcv_history, _,
\* stablecoin).  The record kept of the call holds its price argument, the
\* number of candles handed over, and the features computed from the book
\* and from the stored previous values.
ComputeAnomalyFeatures(stablecoin, current_price, book, ohlcv_history) ==
    /\ TotalAnomalyCalls < MaxAnomalyCalls
    /\ n_anomaly_calls' = [n_anomaly_calls EXCEPT ![stablecoin] = @ + 1]
    /\ LET liquidity_depth == calculate_liquidity_score(book, 10)
       IN  /\ previous_liquidity' = Put(previous_liquidity, stablecoin, liquidity_depth)
           /\ historical_volumes' = volumes_after(ohlcv_history, stablecoin)
           /\ previous_price' = Put(previous_price, stablecoin, current_price)
           /\ anomaly_call' = [anomaly_call EXCEPT ![stablecoin] =
                 << [ current_price        |-> current_price,
                      n_candles            |-> Len(ohlcv_history),
                      liquidity_depth      |-> liquidity_depth,
                      liquidity_change_pct |->
                          change_pct(previous_liquidity, stablecoin, liquidity_depth),
                      price_change_pct     |->
                          change_pct(previous_price, stablecoin, current_price),
                      orderbook_imbalance  |-> calculate_orderbook_imbalance(book) ] >>]
    /\ UNCHANGED <<book_vars, thread_vars, conv_vars, window_vars, series_vars,
                   anomaly_vars, cache_vars, agg_vars, fe_vars>>

(***************************************************************************)
(* FeatureEngineer: two evaluations running at the same time               *)
(*                                                                         *)
(* The class holds no lock, so a thread may be preempted between any two   *)
(* statements of a method.  Each thread makes one call; its steps are the  *)
(* statements that read or write the rolling state.                        *)
(***************************************************************************)
Threads == {"t1", "t2"}

\* Arguments of the concurrent calls.
ThreadDeviations == {0, 5001}

ThreadBooks ==
    { [bids |-> <<[price |-> 1, volume |-> 3]>>, asks |-> <<[price |-> 1, volume |-> 2]>>],
      [bids |-> <<[price |-> 1, volume |-> 3], [price |-> 1, volume |-> 3]>>,
       asks |-> <<[price |-> 1, volume |-> 3], [price |-> 1, volume |-> 2]>>] }

ThreadPrices == {9990, 10000}

\* The locals of a call before it has run.
EmptyFrame ==
    [ liquidity_change_pct |-> Ratio(0, 1), price_change_pct |-> Ratio(0, 1),
      duration |-> 0 ]

At(t, label) == thread_pc[t] = label

Goto(t, label) == thread_pc' = [thread_pc EXCEPT ![t] = label]

\* del store[key] / store.pop(key, None)
Without(store, key) == [k \in DOMAIN store \ {key} |-> store[k]]

\* A thread enters calculate_deviation_duration(peg_deviation, stablecoin).
StartDuration(t, stablecoin, peg_deviation) ==
    /\ At(t, "idle")
    /\ thread_call' = [thread_call EXCEPT ![t] =
          << [ op |-> "calculate_deviation_duration", stablecoin |-> stablecoin,
               peg_deviation |-> peg_deviation ] >>]
    /\ Goto(t, "test")
    /\ UNCHANGED <<thread_frame, book_vars, delta_vars, conv_vars, window_vars, series_vars,
                   anomaly_vars, cache_vars, agg_vars, fe_vars>>

\* if abs(peg_deviation) > threshold: if stablecoin not in
\* self.deviation_start_time
TestStart(t) ==
    /\ At(t, "test")
    /\ LET call == thread_call[t][1]
       IN  IF Abs(call.peg_deviation) > threshold
           THEN IF call.stablecoin \notin DOMAIN deviation_start_time
                THEN Goto(t, "record")
                ELSE Goto(t, "measure")
           ELSE Goto(t, "clear")
    /\ UNCHANGED <<thread_call, thread_frame, book_vars, delta_vars, conv_vars, window_vars,
                   series_vars, anomaly_vars, cache_vars, agg_vars, fe_vars>>

\* self.deviation_start_time[stablecoin] = datetime.utcnow()
RecordStart(t) ==
    /\ At(t, "record")
    /\ deviation_start_time' =
          Put(deviation_start_time, thread_call[t][1].stablecoin, utc_clock)
    /\ Goto(t, "measure")
    /\ UNCHANGED <<thread_call, thread_frame, utc_clock, evaluation, n_evals,
                   book_vars, delta_vars, conv_vars, window_vars, series_vars,
                   anomaly_vars, cache_vars, agg_vars>>

\* duration = (datetime.utcnow() - self.deviation_start_time[stablecoin])
\* ... return round(duration, 2); the subscript raises KeyError when the
\* entry is gone.
Measure(t) ==
    /\ At(t, "measure")
    /\ LET stablecoin == thread_call[t][1].stablecoin
       IN  IF stablecoin \in DOMAIN deviation_start_time
           THEN /\ thread_frame' = [thread_frame EXCEPT ![t].duration =
                      duration_minutes(utc_clock - deviation_start_time[stablecoin])]
                /\ Goto(t, "returned")
           ELSE /\ Goto(t, "raised")
                /\ UNCHANGED thread_frame
    /\ UNCHANGED <<thread_call, book_vars, delta_vars, conv_vars, window_vars, series_vars,
                   anomaly_vars, cache_vars, agg_vars, fe_vars>>

\* self.deviation_start_time.pop(stablecoin, None); return 0.0
ClearStart(t) ==
    /\ At(t, "clear")
    /\ deviation_start_time' =
          Without(deviation_start_time, thread_call[t][1].stablecoin)
    /\ thread_frame' = [thread_frame EXCEPT ![t].duration = 0]
    /\ Goto(t, "returned")
    /\ UNCHANGED <<thread_call, utc_clock, evaluation, n_evals,
                   book_vars, delta_vars, conv_vars, window_vars, series_vars,
                   anomaly_vars, cache_vars, agg_vars>>

\* A thread enters compute_anomaly_features(current_price, orderbook, [], _,
\* stablecoin) and computes liquidity_depth, which touches no state.
StartFeatures(t, stablecoin, current_price, book) ==
    /\ At(t, "idle")
    /\ thread_call' = [thread_call EXCEPT ![t] =
          << [ op |-> "compute_anomaly_features", stablecoin |-> stablecoin,
               current_price |-> current_price,
               liquidity_depth |-> calculate_liquidity_score(book, 10) ] >>]
    /\ Goto(t, "read_liquidity")
    /\ UNCHANGED <<thread_frame, book_vars, delta_vars, conv_vars, window_vars, series_vars,
                   anomaly_vars, cache_vars, agg_vars, fe_vars>>

\* The read of self.previous_liquidity and the change computed from it.
ReadLiquidity(t) ==
    /\ At(t, "read_liquidity")
    /\ thread_frame' = [thread_frame EXCEPT ![t].liquidity_change_pct =
          change_pct(previous_liquidity, thread_call[t][1].stablecoin,
                     thread_call[t][1].liquidity_depth)]
    /\ Goto(t, "write_liquidity")
    /\ UNCHANGED <<thread_call, book_vars, delta_vars, conv_vars, window_vars, series_vars,
                   anomaly_vars, cache_vars, agg_vars, fe_vars>>

\* self.previous_liquidity[stablecoin] = liquidity_depth
WriteLiquidity(t) ==
    /\ At(t, "write_liquidity")
    /\ previous_liquidity' =
          Put(previous_liquidity, thread_call[t][1].stablecoin,
              thread_call[t][1].liquidity_depth)
    /\ Goto(t, "read_price")
    /\ UNCHANGED <<thread_call, thread_frame, previous_price, historical_volumes,
                   anomaly_call, n_anomaly_calls, book_vars, conv_vars, window_vars, series_vars,
                   anomaly_vars, cache_vars, agg_vars, fe_vars>>

\* The read of self.previous_price and the change computed from it.
ReadPrice(t) ==
    /\ At(t, "read_price")
    /\ thread_frame' = [thread_frame EXCEPT ![t].price_change_pct =
          change_pct(previous_price, thread_call[t][1].stablecoin,
                     thread_call[t][1].current_price)]
    /\ Goto(t, "write_price")
    /\ UNCHANGED <<thread_call, book_vars, delta_vars, conv_vars, window_vars, series_vars,
                   anomaly_vars, cache_vars, agg_vars, fe_vars>>

\* self.previous_price[stablecoin] = current_price, and the rest of the
\* method, which touches no state.
WritePrice(t) ==
    /\ At(t, "write_price")
    /\ previous_price' =
          Put(previous_price, thread_call[t][1].stablecoin,
              thread_call[t][1].current_price)
    /\ Goto(t, "returned")
    /\ UNCHANGED <<thread_call, thread_frame, previous_liquidity, historical_volumes,
                   anomaly_call, n_anomaly_calls, book_vars, conv_vars, window_vars, series_vars,
                   anomaly_vars, cache_vars, agg_vars, fe_vars>>

(***************************************************************************)
(* Order-book aggregator: convert_volume_to_usd                            *)
(***************************************************************************)
\* Levels of {price, volume} an exchange may send, sound or not.
UnconvertedLevels ==
    { [price |-> 2, volume |-> 1],
      [price |-> 2, volume |-> 3],
      [price |-> 0, volume |-> 1],
      [price |-> -1, volume |-> 1] }

UnconvertedSides ==
    UNION { [1..n -> UnconvertedLevels] : n \in 0..MaxBookLevels }

\* The orderbook argument: a dict that may hold "timestamp", "bids" and
\* "asks", kept as its timestamp (<<>> when it holds none) and the sides it
\* holds.
UnconvertedBooks ==
    { [timestamp |-> ts, sides |-> held] :
          ts \in {<<>>, <<1>>},
          held \in UNION { [keys -> UnconvertedSides] : keys \in SUBSET Sides } }

SideArguments == {"bids", "asks", "both"}

\* The sides of the book a call with this side argument converts.
RequestedSides(book, side) ==
    { s \in Sides : (side = s \/ side = "both") /\ s \in DOMAIN book.sides }

\* The list comprehension over one side.
converted_side(levels) ==
    [k \in 1..Len(levels) |->
        [ price      |-> levels[k].price,
          volume     |-> levels[k].volume,
          volume_usd |-> levels[k].volume * levels[k].price ]]

\* convert_volume_to_usd(orderbook, current_price, side): the timestamp is
\* copied and each requested side the book holds is converted.
convert_volume_to_usd(book, side) ==
    [ timestamp |-> book.timestamp,
      sides     |-> [s \in RequestedSides(book, side) |-> converted_side(book.sides[s])] ]

\* One call as the model records it: its side argument and what it
\* returned; the function has no raise statement.
Convert(side) ==
    /\ converted' = << [ side |-> side,
                         out  |-> <<convert_volume_to_usd(raw_book, side)>> ] >>
    /\ UNCHANGED <<raw_book, book_vars, delta_vars, thread_vars, series_vars, window_vars,
                   anomaly_vars, cache_vars, agg_vars, fe_vars>>

(***************************************************************************)
(* FeatureEngineer: the liquidity history                                  *)
(***************************************************************************)
MaxLiquidityCalls == 3

MaxLength == 3

\* deque(maxlen=1000)
history_maxlen == 1000

TotalLiquidityCalls == n_liquidity_calls["usdt"] + n_liquidity_calls["usdc"]

\* Mutation: the deque never drops a sample.
append_unbounded(history, sample) ==
    Append(history, sample)

\* deque.append: the oldest sample is dropped from a full deque.
AppendBounded(history, sample) ==
    IF Len(history) >= history_maxlen
    THEN Append(Tail(history), sample)
    ELSE Append(history, sample)

\* compute_liquidity_features(orderbook, _, _, stablecoin): the depth of the
\* book is appended to the asset's history; the features returned are
\* computed from the arguments alone.
ComputeLiquidityFeatures(stablecoin, book) ==
    /\ TotalLiquidityCalls < MaxLiquidityCalls
    /\ n_liquidity_calls' = [n_liquidity_calls EXCEPT ![stablecoin] = @ + 1]
    /\ historical_liquidity' =
          Put(historical_liquidity, stablecoin,
              AppendBounded(IF stablecoin \in DOMAIN historical_liquidity
                            THEN historical_liquidity[stablecoin] ELSE <<>>,
                            calculate_liquidity_score(book, 10)))
    /\ UNCHANGED <<series, book_vars, delta_vars, thread_vars, conv_vars, window_vars,
                   anomaly_vars, cache_vars, agg_vars, fe_vars>>

\* history[-length:] for length >= 0; history[-0:] is history[0:].
LastSlice(history, length) ==
    IF length = 0 THEN history
    ELSE SubSeq(history, Max(Len(history) - length, 0) + 1, Len(history))

\* The body of get_liquidity_time_series once the asset's history has been
\* copied into the local list.
padded_history(history, length) ==
    IF Len(history) < length
    THEN IF Len(history) > 0
         THEN [k \in 1..(length - Len(history)) |-> history[1]] \o history
         ELSE <<>>
    ELSE LastSlice(history, length)

\* get_liquidity_time_series(stablecoin, length): the rows of the array it
\* returns, <<>> for np.array([]).
get_liquidity_time_series(stablecoin, length) ==
    IF stablecoin \notin DOMAIN historical_liquidity
    THEN <<>>
    ELSE padded_history(historical_liquidity[stablecoin], length)

\* One call as the model records it: its arguments, whether the asset had
\* a history, the local copy of that history, and the rows returned.
GetLiquidityTimeSeries(stablecoin, length) ==
    /\ series' =
          << [ stablecoin |-> stablecoin,
               length     |-> length,
               known      |-> stablecoin \in DOMAIN historical_liquidity,
               history    |-> IF stablecoin \in DOMAIN historical_liquidity
                              THEN historical_liquidity[stablecoin] ELSE <<>>,
               out        |-> get_liquidity_time_series(stablecoin, length) ] >>
    /\ UNCHANGED <<historical_liquidity, n_liquidity_calls, book_vars, delta_vars,
                   thread_vars, conv_vars, window_vars, anomaly_vars, cache_vars, agg_vars, fe_vars>>

(***************************************************************************)
(* FeatureEngineer: compute_all_features                                   *)
(***************************************************************************)
MaxOperations == 3

\* calculate_peg_deviation(current_price): round((price - 1.0) / 1.0 * 100,
\* 4), the price in 1e-4 dollars and the deviation in 1e-4 %.
calculate_peg_deviation(current_price) == (current_price - 10000) * 100

\* compute_all_features(current_price, orderbook, ohlcv_history, _,
\* stablecoin): of its calls, calculate_deviation_duration and
\* calculate_volume_anomaly write the engineer's state.  The record kept of
\* the call holds the asset, the number of candles handed over, and the
\* features computed from the price, the clock and the book.
ComputeAllFeatures(stablecoin, current_price, book, ohlcv_history) ==
    /\ EvaluateDuration(stablecoin, calculate_peg_deviation(current_price))
    /\ historical_volumes' = volumes_after(ohlcv_history, stablecoin)
    /\ risk_features' =
          << [ stablecoin          |-> stablecoin,
               n_candles           |-> Len(ohlcv_history),
               peg_deviation       |-> calculate_peg_deviation(current_price),
               deviation_duration  |-> evaluation'[stablecoin][1].duration,
               liquidity_score     |-> calculate_liquidity_score(book, 10),
               orderbook_imbalance |-> calculate_orderbook_imbalance(book) ] >>
    /\ UNCHANGED <<previous_liquidity, previous_price, anomaly_call,
                   n_anomaly_calls, volume_anomaly, book_vars, thread_vars,
                   conv_vars, series_vars, anomaly_vars, cache_vars, agg_vars>>

\* The operations made on the engineer so far, reads of the liquidity
\* history aside.
TotalOperations == TotalEvals + TotalAnomalyCalls + TotalLiquidityCalls

\* Arguments of the operations when they are interleaved: a price on the
\* peg and one 1 % under it, and two books of different depth.
EnginePrices == {9900, 10000}

EngineBooks ==
    { book \in FeatureBooks :
        calculate_liquidity_score(book, 10) \in {2, 4} }

\* The deeper of them.
DeepBooks ==
    { book \in FeatureBooks : calculate_liquidity_score(book, 10) = 4 }

\* The window of n candles handed over where the stored windows fill up.
SuppliedWindow(n) == Candles(n, 1, 1, 0)

\* Windows of nine candles, of ten, and of one more than the 1440 kept.
SuppliedWindows == { SuppliedWindow(n) : n \in {9, 10, 1441} }

\* A liquidity history one sample short of the deque's capacity, as 999
\* compute_liquidity_features calls leave it.
LongHistory == [k \in 1..(history_maxlen - 1) |-> IF k = 1 THEN 4 ELSE 2]

(***************************************************************************)
(* AnomalyDetectionModel: operations                                       *)
(***************************************************************************)

\* train (or load_model): a scorer becomes available.
Train ==
    /\ model = "None"
    /\ model' = "IsolationForest"
    /\ UNCHANGED <<features, detection, cache_vars, agg_vars, fe_vars, engine_vars>>

\* detect_anomaly on the fallback path (self.model is None).
DetectFallback ==
    /\ model = "None"
    /\ detection' = << [scorer |-> <<>>, result |-> fallback_detection(features)] >>
    /\ UNCHANGED <<model, features, cache_vars, agg_vars, fe_vars, engine_vars>>

\* detect_anomaly on the scorer path.
DetectScored ==
    /\ model = "IsolationForest"
    /\ \E prediction \in Predictions, anomaly_score \in AnomalyScores :
          detection' = << [ scorer |-> << [prediction |-> prediction,
                                           anomaly_score |-> anomaly_score] >>,
                            result |-> scored_detection(features, prediction,
                                                        anomaly_score) ] >>
    /\ UNCHANGED <<model, features, cache_vars, agg_vars, fe_vars, engine_vars>>

(***************************************************************************)
(* Specifications, one per component                                       *)
(***************************************************************************)
\* AnomalyDetectionModel.__init__ with no model file on disk.
AnomalyConstructed ==
    /\ model = "None"
    /\ features = crisis_features
    /\ detection = <<>>

\* MLDeviationCalculator.__init__
CacheConstructed ==
    /\ cache = <<>>
    /\ cache_timestamps = <<>>
    /\ clock = 0
    /\ pc = [c \in Callers |-> "idle"]
    /\ args = [c \in Callers |-> <<>>]
    /\ ret = [c \in Callers |-> <<>>]
    /\ n_calls = [c \in Callers |-> 0]
    /\ response = [c \in Callers |-> <<>>]

\* No aggregate_orderbooks call has been made.
AggregatorIdle ==
    /\ orderbooks = <<>>
    /\ agg_clock = 0
    /\ agg_calls = <<>>
    /\ agg_metrics = <<>>

\* FeatureEngineer.__init__
EngineerConstructed ==
    /\ deviation_start_time = <<>>
    /\ utc_clock = 0
    /\ evaluation = [a \in Assets |-> <<>>]
    /\ n_evals = [a \in Assets |-> 0]

\* No book features have been computed.
BooksConstructed ==
    /\ orderbook = [bids |-> <<>>, asks |-> <<>>]
    /\ book_features = <<>>

\* FeatureEngineer.__init__: the previous-value stores
DeltasConstructed ==
    /\ previous_liquidity = <<>>
    /\ previous_price = <<>>
    /\ historical_volumes = <<>>
    /\ anomaly_call = [a \in Assets |-> <<>>]
    /\ n_anomaly_calls = [a \in Assets |-> 0]

\* No thread has entered a method.
ThreadsIdle ==
    /\ thread_pc = [t \in Threads |-> "idle"]
    /\ thread_call = [t \in Threads |-> <<>>]
    /\ thread_frame = [t \in Threads |-> EmptyFrame]

\* No convert_volume_to_usd call has been made.
ConverterIdle ==
    /\ raw_book = [timestamp |-> <<>>, sides |-> <<>>]
    /\ converted = <<>>

\* FeatureEngineer.__init__: the liquidity history
SeriesConstructed ==
    /\ historical_liquidity = <<>>
    /\ series = <<>>
    /\ n_liquidity_calls = [a \in Assets |-> 0]

\* Neither calculate_volume_anomaly nor compute_all_features has been
\* called.
WindowsIdle ==
    /\ volume_anomaly = <<>>
    /\ risk_features = <<>>

\* The components added to the four above, as constructed.
EngineIdle ==
    /\ BooksConstructed
    /\ DeltasConstructed
    /\ ThreadsIdle
    /\ ConverterIdle
    /\ SeriesConstructed
    /\ WindowsIdle

\* The first four components, as constructed.
CoreIdle ==
    AnomalyConstructed /\ CacheConstructed /\ AggregatorIdle /\ EngineerConstructed

InitAnomaly ==
    /\ model \in {"None", "IsolationForest"}
    /\ features \in FeatureVectors
    /\ detection = <<>>
    /\ CacheConstructed
    /\ AggregatorIdle
    /\ EngineerConstructed
    /\ EngineIdle

NextAnomaly == Train \/ DetectFallback \/ DetectScored

SpecAnomaly == InitAnomaly /\ [][NextAnomaly]_vars

InitCache ==
    CacheConstructed /\ AnomalyConstructed /\ AggregatorIdle /\ EngineerConstructed
        /\ EngineIdle

NextCache ==
    \/ \E c \in Callers, s \in Stablecoins, d \in PeriodDays : Call(c, s, d)
    \/ \E c \in Callers : FetchDone(c)
    \/ ClearCache
    \/ Tick

SpecCache == InitCache /\ [][NextCache]_vars

InitAgg ==
    AggregatorIdle /\ CacheConstructed /\ AnomalyConstructed /\ EngineerConstructed
        /\ EngineIdle

NextAgg ==
    \/ \E i \in 1..Len(ExchangeOrder), side \in Sides, level \in RawLevels :
          AddLevel(ExchangeOrder[i], side, level)
    \/ \E depth_levels \in 0..MaxDepth : Aggregate(depth_levels)
    \/ AggregateAgain
    \/ CalculateMetrics

SpecAgg == InitAgg /\ [][NextAgg]_vars

InitFE ==
    EngineerConstructed /\ AggregatorIdle /\ CacheConstructed /\ AnomalyConstructed
        /\ EngineIdle

NextFE ==
    \/ \E a \in Assets, dev \in PegDeviations : CalculateDeviationDuration(a, dev)
    \/ TickUtc

SpecFE == InitFE /\ [][NextFE]_vars

InitBook ==
    /\ orderbook \in OrderBooks
    /\ book_features = <<>>
    /\ CoreIdle
    /\ DeltasConstructed
    /\ ThreadsIdle
    /\ ConverterIdle
    /\ SeriesConstructed
    /\ WindowsIdle

NextBook == \E depth_levels \in ScoreDepths : ComputeBookFeatures(depth_levels)

SpecBook == InitBook /\ [][NextBook]_vars

InitDelta == CoreIdle /\ EngineIdle

NextDelta ==
    \E a \in Assets, price \in CurrentPrices, book \in FeatureBooks,
       ohlcv_history \in OhlcvHistories :
          ComputeAnomalyFeatures(a, price, book, ohlcv_history)

SpecDelta == InitDelta /\ [][NextDelta]_vars

\* The engineer may already be tracking a deviation of an asset when the
\* two threads enter.
InitThreads ==
    /\ deviation_start_time \in {<<>>, [usdt |-> 0]}
    /\ utc_clock = 0
    /\ evaluation = [a \in Assets |-> <<>>]
    /\ n_evals = [a \in Assets |-> 0]
    /\ AnomalyConstructed /\ CacheConstructed /\ AggregatorIdle
    /\ EngineIdle

NextThreads ==
    \/ \E t \in Threads, a \in Assets, dev \in ThreadDeviations :
          StartDuration(t, a, dev)
    \/ \E t \in Threads, a \in Assets, price \in ThreadPrices, book \in ThreadBooks :
          StartFeatures(t, a, price, book)
    \/ \E t \in Threads :
          \/ TestStart(t)
          \/ RecordStart(t)
          \/ Measure(t)
          \/ ClearStart(t)
          \/ ReadLiquidity(t)
          \/ WriteLiquidity(t)
          \/ ReadPrice(t)
          \/ WritePrice(t)
    \/ TickUtc

SpecThreads == InitThreads /\ [][NextThreads]_vars

InitConvert ==
    /\ raw_book \in UnconvertedBooks
    /\ converted = <<>>
    /\ CoreIdle
    /\ BooksConstructed /\ DeltasConstructed /\ ThreadsIdle /\ SeriesConstructed
    /\ WindowsIdle

NextConvert == \E side \in SideArguments : Convert(side)

SpecConvert == InitConvert /\ [][NextConvert]_vars

InitSeries == CoreIdle /\ EngineIdle

NextSeries ==
    \/ \E a \in Assets, book \in FeatureBooks : ComputeLiquidityFeatures(a, book)
    \/ \E a \in Assets, length \in 0..MaxLength : GetLiquidityTimeSeries(a, length)

SpecSeries == InitSeries /\ [][NextSeries]_vars

InitVolume == CoreIdle /\ EngineIdle

NextVolume ==
    \E a \in Assets, ohlcv_history \in VolumeWindows :
        CalculateVolumeAnomaly(a, ohlcv_history)

SpecVolume == InitVolume /\ [][NextVolume]_vars

\* The engineer as constructed, or with the rolling state that earlier
\* calls for one asset have left.
InitEngine ==
    /\ AnomalyConstructed /\ CacheConstructed /\ AggregatorIdle
    /\ BooksConstructed /\ ThreadsIdle /\ ConverterIdle /\ WindowsIdle
    /\ utc_clock = 0
    /\ evaluation = [a \in Assets |-> <<>>]
    /\ n_evals = [a \in Assets |-> 0]
    /\ anomaly_call = [a \in Assets |-> <<>>]
    /\ n_anomaly_calls = [a \in Assets |-> 0]
    /\ series = <<>>
    /\ n_liquidity_calls = [a \in Assets |-> 0]
    /\ \/ /\ deviation_start_time = <<>>
          /\ previous_liquidity = <<>>
          /\ previous_price = <<>>
          /\ historical_volumes = <<>>
          /\ historical_liquidity = <<>>
       \/ /\ deviation_start_time = [usdc |-> 0]
          /\ previous_liquidity = [usdc |-> 1000]
          /\ previous_price = [usdc |-> 9990]
          /\ historical_volumes = [usdc |-> [k \in 1..10 |-> 1]]
          /\ historical_liquidity = [usdc |-> <<1000, 0>>]

NextEngine ==
    \/ \E a \in Assets, price \in EnginePrices, book \in DeepBooks,
          ohlcv_history \in OhlcvHistories :
             /\ TotalOperations < MaxOperations
             /\ ComputeAllFeatures(a, price, book, ohlcv_history)
    \/ \E a \in Assets, price \in EnginePrices, book \in EngineBooks,
          ohlcv_history \in OhlcvHistories :
             /\ TotalOperations < MaxOperations
             /\ ComputeAnomalyFeatures(a, price, book, ohlcv_history)
    \/ \E a \in Assets, book \in EngineBooks :
             /\ TotalOperations < MaxOperations
             /\ ComputeLiquidityFeatures(a, book)
    \/ \E a \in Assets : GetLiquidityTimeSeries(a, 1)

SpecEngine == InitEngine /\ [][NextEngine]_vars

\* The engineer as constructed, or with the liquidity history that earlier
\* calls for one asset have left.
InitWindows ==
    /\ CoreIdle
    /\ BooksConstructed /\ DeltasConstructed /\ ThreadsIdle /\ ConverterIdle
    /\ WindowsIdle
    /\ historical_liquidity \in {<<>>, [usdc |-> LongHistory]}
    /\ series = <<>>
    /\ n_liquidity_calls = [a \in Assets |-> 0]

\* The operations that write the stored windows, with a price on the peg.
NextWindows ==
    \/ \E a \in Assets, book \in DeepBooks, ohlcv_history \in SuppliedWindows :
             /\ TotalOperations < MaxOperations
             /\ ComputeAllFeatures(a, 10000, book, ohlcv_history)
    \/ \E a \in Assets, book \in DeepBooks, ohlcv_history \in SuppliedWindows :
             /\ TotalOperations < MaxOperations
             /\ ComputeAnomalyFeatures(a, 10000, book, ohlcv_history)
    \/ \E a \in Assets, book \in EngineBooks :
             /\ TotalOperations < MaxOperations
             /\ ComputeLiquidityFeatures(a, book)

SpecWindows == InitWindows /\ [][NextWindows]_vars

(***************************************************************************)
(* Claims about AnomalyDetectionModel                                      *)
(***************************************************************************)
HasAlert(alerts, type) == \E i \in 1..Len(alerts) : alerts[i].type = type

HasAlertOf(alerts, type, severity) ==
    \E i \in 1..Len(alerts) : alerts[i] = Alert(type, severity)

CrisisDetected == detection # <<>> /\ features = crisis_features

\* C1 as stated: detect_anomaly on the literal crisis vector returns
\* is_anomaly = true and at least 6 alerts, among them liquidity_drop,
\* low_liquidity (High), volume_spike (High) and whale_activity (High).
C1_CrisisAsStated ==
    CrisisDetected =>
        LET r == detection[1].result
        IN  /\ r.is_anomaly
            /\ Len(r.alerts) >= 6
            /\ HasAlert(r.alerts, "liquidity_drop")
            /\ HasAlertOf(r.alerts, "low_liquidity", "High")
            /\ HasAlertOf(r.alerts, "volume_spike", "High")
            /\ HasAlertOf(r.alerts, "whale_activity", "High")

\* C1 amended: on the crisis vector, with a scorer loaded the result carries
\* all 9 alerts of the rule table, among them liquidity_drop (High),
\* low_liquidity (Medium, because 0.15 is not below 0.15), volume_spike
\* (High) and whale_activity (High), and is_anomaly is the scorer's verdict
\* (prediction = -1); with no scorer the result is is_anomaly = true with
\* exactly the 3 fallback alerts low_liquidity (High), volume_spike (Medium)
\* and price_movement (High).
C1_CrisisVector ==
    CrisisDetected =>
        LET d == detection[1]
            r == d.result
        IN  IF d.scorer # <<>>
            THEN /\ Len(r.alerts) = 9
                 /\ HasAlertOf(r.alerts, "liquidity_drop", "High")
                 /\ HasAlertOf(r.alerts, "low_liquidity", "Medium")
                 /\ ~HasAlertOf(r.alerts, "low_liquidity", "High")
                 /\ HasAlertOf(r.alerts, "volume_spike", "High")
                 /\ HasAlertOf(r.alerts, "whale_activity", "High")
                 /\ r.is_anomaly = (d.scorer[1].prediction = -1)
            ELSE /\ r.is_anomaly
                 /\ r.alerts = << Alert("low_liquidity", "High"),
                                  Alert("volume_spike", "Medium"),
                                  Alert("price_movement", "High") >>

\* The crisis vector has been scored by a loaded model that called it normal.
C1_Witness ==
    /\ CrisisDetected
    /\ detection[1].scorer # <<>>
    /\ detection[1].scorer[1].prediction = 1
    /\ Len(detection[1].result.alerts) = 9

(***************************************************************************)
(* Claims about MLDeviationCalculator                                      *)
(***************************************************************************)
KeyOf(c) == CacheKey(args[c][1].stablecoin, args[c][1].period_days)

Age(key) == clock - cache_timestamps[key]

\* C2: a compute_deviation_metrics call that finds its key's entry younger
\* than the 300 s TTL returns the stored result without fetching or
\* computing and leaves the cache as it is; a call that finds the entry
\* older than the TTL runs the fetch again, and the computation that
\* follows overwrites the entry with its result and its write time.  (The
\* age of exactly 300 s is the subject of C23.)
C2_TtlHitOrRecompute ==
    [][\A c \in Callers :
          /\ n_calls'[c] = n_calls[c] + 1 =>
                LET key == CacheKey(args'[c][1].stablecoin, args'[c][1].period_days)
                IN  /\ (key \in DOMAIN cache /\ Age(key) < cache_ttl) =>
                          /\ pc'[c] = "hit"
                          /\ ret'[c] = <<cache[key]>>
                          /\ UNCHANGED <<cache, cache_timestamps>>
                    /\ (key \in DOMAIN cache /\ Age(key) > cache_ttl) =>
                          pc'[c] \in {"fetching", "computed", "raised"}
          /\ (pc'[c] = "computed"
                /\ (n_calls'[c] = n_calls[c] + 1 \/ pc[c] = "fetching")) =>
                /\ cache'[KeyOf(c)'] = ret'[c][1]
                /\ cache_timestamps'[KeyOf(c)'] = clock
                /\ ret'[c][1].timestamp = clock
      ]_vars

\* One caller was served an entry from the cache and, more than a TTL after
\* that entry was written, another caller's call for the same key computed
\* a fresh one.
C2_Witness ==
    \E c, d \in Callers :
        /\ pc[c] = "hit"
        /\ pc[d] = "computed"
        /\ args[c] = args[d]
        /\ ret[d][1].timestamp - ret[c][1].timestamp > cache_ttl
        /\ cache[KeyOf(d)] = ret[d][1]

\* C3: request coalescing.  At no time are two calls for the same key both
\* running the price-history fetch.
C3_AtMostOneFetchPerKey ==
    \A c, d \in Callers :
        (c # d /\ pc[c] = "fetching" /\ pc[d] = "fetching") => args[c] # args[d]

\* C4: a call with a symbol outside the supported-symbol table is rejected:
\* it returns no result and no cache entry is written for the symbol.
C4_UnsupportedRejected ==
    /\ \A c \in Callers :
          (args[c] # <<>> /\ args[c][1].stablecoin \notin coingecko_ids) =>
              (pc[c] = "raised" /\ ret[c] = <<>>)
    /\ \A key \in DOMAIN cache : key[1] \in coingecko_ids

(***************************************************************************)
(* Claims about the order-book aggregator                                  *)
(***************************************************************************)
RECURSIVE SumRawUsd(_)
SumRawUsd(levels) ==
    IF levels = <<>> THEN 0
    ELSE LevelUsd(levels[1]) + SumRawUsd(Tail(levels))

\* The USD volume of all raw levels of a side on all exchanges.
RawUsd(side) ==
    SumRawUsd(RawSide(orderbooks, ExchangeOrder[1], side))
    + SumRawUsd(RawSide(orderbooks, ExchangeOrder[2], side))

RawCount(side) ==
    Len(RawSide(orderbooks, ExchangeOrder[1], side))
    + Len(RawSide(orderbooks, ExchangeOrder[2], side))

Returned(call) == call.out # <<>>

\* C5: on each side the price-merged levels carry, in total, the USD volume
\* of all raw levels of that side on all exchanges, a raw level without
\* volume_usd counting as volume x its own price.
C5_VolumeConserved ==
    \A i \in 1..Len(agg_calls) :
        /\ SumUsd(agg_calls[i].aggregated_bids) = RawUsd("bids")
        /\ SumUsd(agg_calls[i].aggregated_asks) = RawUsd("asks")

\* Three raw bids from both exchanges, with and without volume_usd, were
\* merged into two price levels.
C5_Witness ==
    /\ agg_calls # <<>>
    /\ RawCount("bids") = 3
    /\ Len(agg_calls[1].aggregated_bids) = 2
    /\ \A i \in 1..2 : RawSide(orderbooks, ExchangeOrder[i], "bids") # <<>>
    /\ \E i, j \in 1..2 :
          /\ "volume_usd" \in DOMAIN RawSide(orderbooks, ExchangeOrder[i], "bids")[1]
          /\ "volume_usd" \notin DOMAIN RawSide(orderbooks, ExchangeOrder[j], "bids")[1]
    /\ RawUsd("bids") > 0

CumulativeNonDecreasing(levels) ==
    \A k \in 1..(Len(levels) - 1) :
        levels[k].cumulative_usd <= levels[k + 1].cumulative_usd

BestPriceFirst(levels, is_bid) ==
    \A k \in 1..(Len(levels) - 1) :
        IF is_bid THEN levels[k].price > levels[k + 1].price
        ELSE levels[k].price < levels[k + 1].price

\* C6: in every output of aggregate_orderbooks each side runs from the best
\* price outward (bids by descending price, asks by ascending price) and
\* cumulative_usd never decreases along it, sampled or not.
C6_CumulativeMonotone ==
    \A i \in 1..Len(agg_calls) :
        Returned(agg_calls[i]) =>
            LET out == agg_calls[i].out[1]
            IN  /\ CumulativeNonDecreasing(out.bids)
                /\ CumulativeNonDecreasing(out.asks)
                /\ BestPriceFirst(out.bids, TRUE)
                /\ BestPriceFirst(out.asks, FALSE)

\* A bid side of three merged levels was thinned to two by sampling, and
\* cumulative_usd grows between the two levels kept.
C6_Witness ==
    /\ agg_calls # <<>>
    /\ Returned(agg_calls[1])
    /\ Len(agg_calls[1].aggregated_bids) = 3
    /\ Len(agg_calls[1].out[1].bids) = 2
    /\ agg_calls[1].out[1].bids[1].cumulative_usd
          < agg_calls[1].out[1].bids[2].cumulative_usd

IsSubsequence(short, long) ==
    \E f \in [1..Len(short) -> 1..Len(long)] :
        /\ \A k \in 1..Len(short) : short[k] = long[f[k]]
        /\ \A k \in 1..(Len(short) - 1) : f[k] < f[k + 1]

\* What C7 says of one returned side, given the merged ladder it came from.
SideSampled(levels, merged, depth_levels) ==
    /\ Len(levels) = Min(depth_levels, Len(merged))
    /\ IsSubsequence(levels, with_cumulative(merged))
    /\ levels # <<>> => levels[1] = with_cumulative(merged)[1]

\* C7: for every side with n merged levels and every depth_levels d the
\* call returns a side of exactly min(d, n) levels that is a subsequence of
\* the merged ladder starting at the best price, each kept level with the
\* cumulative_usd it had before sampling.
C7_SampleCount ==
    \A i \in 1..Len(agg_calls) :
        LET call == agg_calls[i]
        IN  /\ Returned(call)
            /\ SideSampled(call.out[1].bids, call.aggregated_bids, call.depth_levels)
            /\ SideSampled(call.out[1].asks, call.aggregated_asks, call.depth_levels)

\* C7 holds of the calls with depth_levels >= 1.
C7_SampleCountFromDepthOne ==
    \A i \in 1..Len(agg_calls) :
        LET call == agg_calls[i]
        IN  call.depth_levels >= 1 =>
               /\ Returned(call)
               /\ SideSampled(call.out[1].bids, call.aggregated_bids,
                              call.depth_levels)
               /\ SideSampled(call.out[1].asks, call.aggregated_asks,
                              call.depth_levels)

Evaluates(a) == n_evals'[a] = n_evals[a] + 1

OverThreshold(e) == Abs(e.peg_deviation) > threshold

\* C9: an evaluation with |peg_deviation| <= 0.5 returns 0 and leaves the
\* asset without a recorded start time, whatever the state before it; an
\* over-threshold evaluation that finds no start recorded (the first one
\* after such a reset) records the time of that evaluation as the start and
\* returns the minutes elapsed since then, which is 0.
C9_InRangeResets ==
    [][\A a \in Assets :
          Evaluates(a) =>
              LET e == evaluation'[a][1]
              IN  /\ ~OverThreshold(e) =>
                        /\ e.duration = 0
                        /\ a \notin DOMAIN deviation_start_time'
                  /\ (OverThreshold(e) /\ a \notin DOMAIN deviation_start_time) =>
                        /\ a \in DOMAIN deviation_start_time'
                        /\ deviation_start_time'[a] = utc_clock
                        /\ e.duration = duration_minutes(utc_clock' - utc_clock)
                        /\ e.duration = 0
      ]_vars

\* An asset went over the threshold, came back in range while its first
\* episode had lasted a measurable time, and later went over again: the
\* last evaluation opened its second episode, some time after the first.
C9_Witness ==
    \E a \in Assets :
        /\ evaluation[a] # <<>>
        /\ OverThreshold(evaluation[a][1])
        /\ ~evaluation[a][1].tracking
        /\ evaluation[a][1].episode = 2
        /\ deviation_start_time[a] = evaluation[a][1].called
        /\ evaluation[a][1].called >= 3
        /\ evaluation[a][1].duration = 0

ConsecutiveOver(a) ==
    /\ Evaluates(a)
    /\ evaluation[a] # <<>>
    /\ OverThreshold(evaluation[a][1])
    /\ OverThreshold(evaluation'[a][1])

Computes(a) == n_anomaly_calls'[a] = n_anomaly_calls[a] + 1

\* The change the claim states for a value current after a previous call
\* whose value was prior.
StatedChange(current, prior) ==
    IF prior > 0 THEN Ratio(current - prior, prior) ELSE Ratio(0, 1)

\* C11: the first compute_anomaly_features call for an asset reports
\* liquidity_change_pct = 0 and price_change_pct = 0; every later call
\* reports (current - prior) / prior against the liquidity depth and the
\* price of the call before it (0 when that prior is not positive); and the
\* call leaves exactly the current depth and price in the stores, for that
\* asset only.
C11_DeltasFromPreviousCall ==
    [][\A a \in Assets :
          Computes(a) =>
              LET e == anomaly_call'[a][1]
              IN  /\ anomaly_call[a] = <<>> =>
                        /\ e.liquidity_change_pct = Ratio(0, 1)
                        /\ e.price_change_pct = Ratio(0, 1)
                  /\ anomaly_call[a] # <<>> =>
                        /\ e.liquidity_change_pct =
                              StatedChange(e.liquidity_depth, anomaly_call[a][1].liquidity_depth)
                        /\ e.price_change_pct =
                              StatedChange(e.current_price, anomaly_call[a][1].current_price)
                  /\ previous_liquidity'[a] = e.liquidity_depth
                  /\ previous_price'[a] = e.current_price
                  /\ \A b \in Assets \ {a} :
                        /\ (b \in DOMAIN previous_liquidity') = (b \in DOMAIN previous_liquidity)
                        /\ (b \in DOMAIN previous_price') = (b \in DOMAIN previous_price)
                        /\ b \in DOMAIN previous_liquidity =>
                              previous_liquidity'[b] = previous_liquidity[b]
                        /\ b \in DOMAIN previous_price =>
                              previous_price'[b] = previous_price[b]
      ]_vars

\* A later call of an asset reported a liquidity change and a price change,
\* both different from 0, while the other asset had been evaluated too.
C11_Witness ==
    \E a \in Assets :
        /\ n_anomaly_calls[a] >= 2
        /\ anomaly_call[a][1].liquidity_change_pct.num # 0
        /\ anomaly_call[a][1].price_change_pct.num # 0
        /\ \E b \in Assets \ {a} : n_anomaly_calls[b] >= 1

(***************************************************************************)
(* Claims about concurrent evaluations                                     *)
(***************************************************************************)
SameState(t, u) ==
    /\ thread_call[t] # <<>>
    /\ thread_call[u] # <<>>
    /\ thread_call[t][1].op = thread_call[u][1].op
    /\ thread_call[t][1].stablecoin = thread_call[u][1].stablecoin

\* A thread is between a read of the asset's rolling state and the write
\* or read that depends on it.
InSection(t) == thread_pc[t] \in {"record", "measure", "write_liquidity", "write_price"}

MutuallyExclusive ==
    \A t, u \in Threads :
        (t # u /\ SameState(t, u)) => ~(InSection(t) /\ InSection(u))

\* Run one after the other, no evaluation raises.
NoneRaises == \A t \in Threads : thread_pc[t] # "raised"

\* The results of t's and u's compute_anomaly_features calls are those of t
\* running first and u after it, on stores that were empty before.
RanInOrder(t, u) ==
    LET first == thread_call[t][1]
        second == thread_call[u][1]
    IN  /\ thread_frame[t].liquidity_change_pct = Ratio(0, 1)
        /\ thread_frame[t].price_change_pct = Ratio(0, 1)
        /\ thread_frame[u].liquidity_change_pct =
              StatedChange(second.liquidity_depth, first.liquidity_depth)
        /\ thread_frame[u].price_change_pct =
              StatedChange(second.current_price, first.current_price)
        /\ previous_liquidity[second.stablecoin] = second.liquidity_depth
        /\ previous_price[second.stablecoin] = second.current_price

DeltasAsIfSerial ==
    \A t, u \in Threads :
        ( /\ t # u
          /\ SameState(t, u)
          /\ thread_call[t][1].op = "compute_anomaly_features"
          /\ thread_pc[t] = "returned"
          /\ thread_pc[u] = "returned" )
        => (RanInOrder(t, u) \/ RanInOrder(u, t))

\* C12: two evaluations of the same asset running at the same time access
\* the asset's rolling state under mutual exclusion: they are never both
\* between a read of that state and the step that depends on it, none of
\* them raises, and the changes they report and leave stored are those of
\* the two running one after the other.
C12_SameAssetSerialized ==
    MutuallyExclusive /\ NoneRaises /\ DeltasAsIfSerial

(***************************************************************************)
(* Claims about convert_volume_to_usd                                      *)
(***************************************************************************)
HasBadPrice(book, side) ==
    \E s \in RequestedSides(book, side) :
        \E k \in 1..Len(book.sides[s]) : book.sides[s][k].price <= 0

\* C13: convert_volume_to_usd fails, returning no book, whenever a level on
\* a requested side has price <= 0, and no level it emits has a price that
\* is not positive.
C13_InvalidLevelRejected ==
    converted # <<>> =>
        LET call == converted[1]
        IN  /\ HasBadPrice(raw_book, call.side) => call.out = <<>>
            /\ call.out # <<>> =>
                  \A s \in DOMAIN call.out[1].sides :
                      \A k \in 1..Len(call.out[1].sides[s]) :
                          call.out[1].sides[s][k].price > 0

(***************************************************************************)
(* Claims about the order-book features                                    *)
(***************************************************************************)
NonNegativeVolumes(book) ==
    \A side \in Sides :
        \A k \in 1..Len(book[side]) : LevelVolume(book[side][k]) >= 0

SeverityRank(severity) ==
    CASE severity = "Normal" -> 0
      [] severity = "Low"    -> 1
      [] severity = "Medium" -> 2
      [] severity = "High"   -> 3

\* The highest rank among the alerts, 0 for none.
MaxAlertRank(alerts) ==
    IF alerts = <<>> THEN 0
    ELSE CHOOSE r \in 1..3 :
            /\ \E i \in 1..Len(alerts) : SeverityRank(alerts[i].severity) = r
            /\ \A i \in 1..Len(alerts) : SeverityRank(alerts[i].severity) <= r

\* C15: in every result of detect_anomaly, on the scorer path and on the
\* fallback path, the severity field is the maximum severity among the
\* alerts of the same result, and Normal when there is no alert.
C15_SeverityIsMaxAlert ==
    detection # <<>> =>
        SeverityRank(detection[1].result.severity)
            = MaxAlertRank(detection[1].result.alerts)

\* The number of the three fallback conditions that hold for a vector.
FallbackConditions(f) ==
      (IF f.liquidity_depth < 300 THEN 1 ELSE 0)
    + (IF Abs(f.volume_zscore) > 3000 THEN 1 ELSE 0)
    + (IF Abs(f.price_change_pct) > 20 THEN 1 ELSE 0)

\* C16: with no scorer loaded, is_anomaly is true exactly when at least 2
\* of the conditions liquidity_depth < 0.3, |volume_zscore| > 3.0 and
\* |price_change_pct| > 0.02 hold, and confidence is 0.6 for every vector.
C16_FallbackCount ==
    (detection # <<>> /\ detection[1].scorer = <<>>) =>
        /\ detection[1].result.is_anomaly = (FallbackConditions(features) >= 2)
        /\ detection[1].result.confidence = 600

\* The fallback has judged a vector on which exactly one condition holds
\* and the two others sit on their thresholds: not an anomaly.
C16_Witness ==
    /\ detection # <<>>
    /\ detection[1].scorer = <<>>
    /\ features.liquidity_depth = 300
    /\ features.volume_zscore = 3000
    /\ Abs(features.price_change_pct) > 20
    /\ ~detection[1].result.is_anomaly
    /\ detection[1].result.confidence = 600

AlertTypes ==
    { "liquidity_drop", "low_liquidity", "volume_spike", "whale_activity",
      "unusual_price_movement", "orderbook_imbalance", "wide_spread",
      "volatility_spike", "spread_widening" }

\* The condition of the rule table for an alert type.
TableCondition(type, f) ==
    CASE type = "liquidity_drop"         -> f.liquidity_change_pct < -200
      [] type = "low_liquidity"          -> f.liquidity_depth < 300
      [] type = "volume_spike"           -> Abs(f.volume_zscore) > 3000
      [] type = "whale_activity"         -> /\ Abs(f.volume_zscore) > 4000
                                            /\ Abs(f.price_change_pct) > 10
      [] type = "unusual_price_movement" -> Abs(f.price_change_pct) > 20
      [] type = "orderbook_imbalance"    -> Abs(f.orderbook_imbalance) > 700
      [] type = "wide_spread"            -> f.cross_exchange_spread > 10
      [] type = "volatility_spike"       -> f.volatility_spike > 50
      [] type = "spread_widening"        -> f.bid_ask_spread > 5

AlertsOfType(alerts, type) ==
    Cardinality({ i \in 1..Len(alerts) : alerts[i].type = type })

\* C20: for every 8-feature vector, _identify_anomaly_types emits an alert
\* of a type if and only if the rule table's strict condition for that type
\* holds, emits no alert of any other type, and emits each type at most
\* once; a value exactly on a threshold triggers nothing.
C20_AlertIffCondition ==
    (detection # <<>> /\ detection[1].scorer # <<>>) =>
        LET alerts == detection[1].result.alerts
        IN  /\ \A type \in AlertTypes :
                  AlertsOfType(alerts, type)
                      = (IF TableCondition(type, features) THEN 1 ELSE 0)
            /\ \A i \in 1..Len(alerts) : alerts[i].type \in AlertTypes

\* A vector with every feature exactly on its threshold has been scored
\* and carries no alert.
C20_Witness ==
    /\ detection # <<>>
    /\ detection[1].scorer # <<>>
    /\ features = [ liquidity_depth       |-> 300,
                    liquidity_change_pct  |-> -200,
                    volume_zscore         |-> 3000,
                    price_change_pct      |-> 20,
                    orderbook_imbalance   |-> 700,
                    cross_exchange_spread |-> 10,
                    volatility_spike      |-> 50,
                    bid_ask_spread        |-> 5 ]
    /\ detection[1].result.alerts = <<>>

(***************************************************************************)
(* Claims about get_liquidity_time_series                                  *)
(***************************************************************************)
\* What the claim states for a call that found the history h.
StatedSeries(h, length) ==
    IF Len(h) >= length
    THEN SubSeq(h, Len(h) - length + 1, Len(h))
    ELSE [k \in 1..(length - Len(h)) |-> h[1]] \o h

SeriesAsStated(call) ==
    IF call.known
    THEN /\ Len(call.out) = call.length
         /\ call.out = StatedSeries(call.history, call.length)
    ELSE call.out = <<>>

\* C17: for an asset with at least one stored sample and any length >= 0,
\* get_liquidity_time_series returns exactly length samples, the most
\* recent ones in chronological order, preceded by copies of the oldest
\* stored sample when fewer are stored; for an asset without history it
\* returns an empty result; and the call changes no rolling state.
C17_ExactlyLengthSamples ==
    [][ (series' # series) =>
           /\ SeriesAsStated(series'[1])
           /\ historical_liquidity' = historical_liquidity
      ]_vars

\* The same for every call with length >= 1.
C17_ExactlyLengthFromOne ==
    [][ (series' # series /\ series'[1].length >= 1) =>
           /\ SeriesAsStated(series'[1])
           /\ historical_liquidity' = historical_liquidity
      ]_vars

(***************************************************************************)
(* Claims about the price-history fallback                                 *)
(***************************************************************************)
\* The request of caller c's call has ended in a failure: an exception (a
\* timeout among them) or a status other than 200.
FetchFailed(c) ==
    /\ response[c] # <<>>
    /\ response[c][1] \in {"exception", "http_error"}

FetchSucceeded(c) ==
    /\ response[c] # <<>>
    /\ response[c][1] = "ok"

\* C18: when the price-history fetch fails for a supported asset,
\* compute_deviation_metrics does not raise but returns a result built from
\* the synthetic series, and that result carries a flag that tells it from
\* a result built from fetched prices: no result built from fetched prices
\* equals it.
C18_FallbackFlagged ==
    \A c \in Callers :
        FetchFailed(c) =>
            /\ pc[c] = "computed"
            /\ ret[c][1].data = generate_synthetic_prices(
                                    args[c][1].stablecoin, args[c][1].period_days).series
            /\ \A d \in Callers :
                  (FetchSucceeded(d) /\ pc[d] = "computed") => ret[d] # ret[c]

\* The part of C18 that does not concern the flag: a failed fetch for a
\* supported asset does not raise and the result is built from the synthetic
\* series.
C18_FallbackReturned ==
    \A c \in Callers :
        FetchFailed(c) =>
            /\ args[c][1].stablecoin \in coingecko_ids
            /\ pc[c] = "computed"
            /\ ret[c][1].data = generate_synthetic_prices(
                                    args[c][1].stablecoin, args[c][1].period_days).series
            /\ ret[c][1].data_points = args[c][1].period_days * 24

(***************************************************************************)
(* Claims about calculate_liquidity_score                                  *)
(***************************************************************************)
\* level["volume_usd"] of a level that carries it, else 0.
LevelVolumeUsd(level) ==
    IF "volume_usd" \in DOMAIN level THEN level.volume_usd ELSE 0

RECURSIVE SumVolumeUsd(_)
SumVolumeUsd(levels) ==
    IF levels = <<>> THEN 0
    ELSE LevelVolumeUsd(levels[1]) + SumVolumeUsd(Tail(levels))

CarriesVolumeUsd(book) ==
    \A side \in Sides :
        \A k \in 1..Len(book[side]) : "volume_usd" \in DOMAIN book[side][k]

\* C19: for a book whose levels carry volume_usd, such as the bids and asks
\* returned by aggregate_orderbooks, calculate_liquidity_score returns (sum
\* of volume_usd of the first N bid levels + sum of volume_usd of the first
\* N ask levels) / 10,000,000 when both sides are non-empty, and 0.1 when a
\* side is empty.
C19_ScoreFromVolumeUsd ==
    (book_features # <<>> /\ CarriesVolumeUsd(orderbook)) =>
        LET N == book_features[1].depth_levels
        IN  book_features[1].liquidity_score =
                IF orderbook.bids = <<>> \/ orderbook.asks = <<>>
                THEN 1000
                ELSE RoundDiv(400 * (SumVolumeUsd(TopLevels(orderbook.bids, N))
                                     + SumVolumeUsd(TopLevels(orderbook.asks, N))),
                              1000)

\* The part of C19 about the sentinel: a book with an empty side scores 0.1.
C19_SentinelOnEmptySide ==
    (book_features # <<>> /\ (orderbook.bids = <<>> \/ orderbook.asks = <<>>)) =>
        book_features[1].liquidity_score = 1000

(***************************************************************************)
(* Claims about alert severities                                           *)
(***************************************************************************)
\* The severity the rule table gives an alert of a type for a vector.
TableSeverity(type, f) ==
    CASE type = "liquidity_drop"         -> "High"
      [] type = "low_liquidity"          ->
            IF f.liquidity_depth < 150 THEN "High" ELSE "Medium"
      [] type = "volume_spike"           ->
            IF Abs(f.volume_zscore) > 5000 THEN "High" ELSE "Medium"
      [] type = "whale_activity"         -> "High"
      [] type = "unusual_price_movement" ->
            IF Abs(f.price_change_pct) > 50 THEN "High" ELSE "Medium"
      [] type = "orderbook_imbalance"    -> "Medium"
      [] type = "wide_spread"            ->
            IF f.cross_exchange_spread > 20 THEN "High" ELSE "Medium"
      [] type = "volatility_spike"       ->
            IF f.volatility_spike > 100 THEN "High" ELSE "Medium"
      [] type = "spread_widening"        -> "Medium"

ScoredAlerts == detection[1].result.alerts

\* C21: every alert emitted by _identify_anomaly_types carries the severity
\* the rule table assigns to its type for the vector, boundary values
\* included (wide_spread is Medium at a cross_exchange_spread of exactly
\* 0.02).
C21_TableSeverity ==
    (detection # <<>> /\ detection[1].scorer # <<>>) =>
        \A i \in 1..Len(ScoredAlerts) :
            ScoredAlerts[i].severity = TableSeverity(ScoredAlerts[i].type, features)

\* The same for every vector whose cross_exchange_spread is not exactly
\* 0.02.
C21_TableSeverityOffSpreadBoundary ==
    (detection # <<>> /\ detection[1].scorer # <<>> /\ features.cross_exchange_spread # 20) =>
        \A i \in 1..Len(ScoredAlerts) :
            ScoredAlerts[i].severity = TableSeverity(ScoredAlerts[i].type, features)

\* C22: with no scorer loaded, every alert in the result of detect_anomaly
\* is one the rule table would produce for the same vector: its type is one
\* of the table's alert names and its severity is the one the table's
\* severity rule gives for the vector.
C22_FallbackAlertsFromTable ==
    (detection # <<>> /\ detection[1].scorer = <<>>) =>
        \A i \in 1..Len(detection[1].result.alerts) :
            LET alert == detection[1].result.alerts[i]
            IN  /\ alert.type \in AlertTypes
                /\ alert.severity = TableSeverity(alert.type, features)

(***************************************************************************)
(* Claims about the cache lifecycle                                        *)
(***************************************************************************)
Calls(c) == n_calls'[c] = n_calls[c] + 1

CalledKey(c) == CacheKey(args'[c][1].stablecoin, args'[c][1].period_days)

\* C23: an entry is expired only once its age is strictly greater than the
\* 300 s TTL: a call that reads the entry at an age of exactly 300 s
\* returns the stored entry without recomputation.
C23_ValidAtExactlyTtl ==
    [][\A c \in Callers :
          (Calls(c) /\ CalledKey(c) \in DOMAIN cache
                    /\ Age(CalledKey(c)) = cache_ttl) =>
              /\ pc'[c] = "hit"
              /\ ret'[c] = <<cache[CalledKey(c)]>>
      ]_vars

\* C24: a call that hits a non-expired entry changes nothing in the cache
\* (payloads, key set, write timestamps), so the entry's lifetime still
\* counts from its write: no call is a hit on an entry written more than
\* 300 s before, however often the entry has been read.
C24_HitChangesNothing ==
    [][\A c \in Callers :
          (Calls(c) /\ pc'[c] = "hit") =>
              /\ cache' = cache
              /\ cache_timestamps' = cache_timestamps
              /\ ret'[c] = <<cache[CalledKey(c)]>>
              /\ clock - ret'[c][1].timestamp < cache_ttl
              /\ cache_timestamps[CalledKey(c)] = ret'[c][1].timestamp
      ]_vars

\* An entry has been read twice, the second time later than the first, and
\* a call made 300 s or more after its write was not served from it.
C24_Witness ==
    \E c, d \in Callers :
        /\ c # d
        /\ pc[c] = "hit"
        /\ n_calls[c] = 2
        /\ n_calls[d] = 2
        /\ args[c] = args[d]
        /\ pc[d] \in {"fetching", "computed"}
        /\ ret[c][1].timestamp = 0
        /\ clock >= cache_ttl

\* C29: in every reachable state the key set of cache equals the key set of
\* cache_timestamps; an entry and its timestamp are written together when a
\* result is returned, a call that raises leaves both maps as they were,
\* and clear_cache empties both.
C29_CacheAndTimestampsAgree ==
    /\ [](DOMAIN cache = DOMAIN cache_timestamps)
    /\ [][ /\ \A c \in Callers :
                /\ (pc'[c] = "raised" /\ pc[c] # "raised") =>
                      (cache' = cache /\ cache_timestamps' = cache_timestamps)
                /\ (pc'[c] = "computed" /\ (Calls(c) \/ pc[c] = "fetching")) =>
                      /\ KeyOf(c)' \in DOMAIN cache'
                      /\ cache'[KeyOf(c)'] = ret'[c][1]
                      /\ cache_timestamps'[KeyOf(c)'] = clock
           /\ (cache # <<>> /\ cache' = <<>>) => cache_timestamps' = <<>>
         ]_vars

\* A call has raised for want of price data while another key's entry sat
\* in the cache with its timestamp.
C29_Witness ==
    \E c \in Callers :
        /\ pc[c] = "raised"
        /\ KeyOf(c) \notin DOMAIN cache
        /\ cache # <<>>
        /\ DOMAIN cache = DOMAIN cache_timestamps

(***************************************************************************)
(* Claims about the latching of the deviation start time                   *)
(***************************************************************************)
\* C25: an asset's deviation start time is written only by an
\* over-threshold evaluation made while no start is recorded; every later
\* over-threshold evaluation, one whose deviation has changed sign
\* included, leaves the start time unchanged and returns the minutes
\* elapsed since it; the first evaluation of an episode returns 0.
C25_StartLatched ==
    [][\A a \in Assets :
          Evaluates(a) =>
              LET e == evaluation'[a][1]
                  recorded == a \in DOMAIN deviation_start_time
                  written  == /\ a \in DOMAIN deviation_start_time'
                              /\ ~recorded
                                 \/ deviation_start_time'[a] # deviation_start_time[a]
              IN  /\ written <=> (OverThreshold(e) /\ ~recorded)
                  /\ written => deviation_start_time'[a] = utc_clock
                  /\ (OverThreshold(e) /\ recorded) =>
                        /\ deviation_start_time'[a] = deviation_start_time[a]
                        /\ e.duration =
                              duration_minutes(e.at - deviation_start_time[a])
                  /\ (OverThreshold(e) /\ ~recorded) => e.duration = 0
      ]_vars

\* An episode that began with a deviation of one sign was continued, with
\* no in-range evaluation in between, by an evaluation whose deviation had
\* the other sign; it returned the positive time since the episode's start.
C25_Witness ==
    \E a \in Assets :
        /\ evaluation[a] # <<>>
        /\ OverThreshold(evaluation[a][1])
        /\ evaluation[a][1].tracking
        /\ evaluation[a][1].reversed
        /\ evaluation[a][1].episode = 1
        /\ n_evals[a] = 2
        /\ evaluation[a][1].duration >= 1
        /\ deviation_start_time[a] < evaluation[a][1].called

(***************************************************************************)
(* Claims about calculate_volume_anomaly                                   *)
(***************************************************************************)
\* C30: for every OHLCV window of at most 60 candles calculate_volume_anomaly
\* returns 0 whatever the volumes are; a non-zero score is returned only for
\* windows of more than 60 candles.
C30_ZeroUpToSixtyCandles ==
    volume_anomaly # <<>> =>
        /\ Len(volume_anomaly[1].ohlcv_history) <= 60 =>
              volume_anomaly[1].score = 0
        /\ volume_anomaly[1].score # 0 =>
              Len(volume_anomaly[1].ohlcv_history) > 60

\* A window of exactly 60 candles with unequal volumes was scored 0, and
\* its volumes were stored.
C30_Witness ==
    /\ volume_anomaly # <<>>
    /\ Len(volume_anomaly[1].ohlcv_history) = 60
    /\ SquaredSpread(volumes_of(volume_anomaly[1].ohlcv_history)) > 0
    /\ volume_anomaly[1].score = 0
    /\ historical_volumes[volume_anomaly[1].stablecoin]
          = volumes_of(volume_anomaly[1].ohlcv_history)

\* A window of more than 60 candles was given a non-zero score.
C30_NonZeroBeyondSixty ==
    /\ volume_anomaly # <<>>
    /\ Len(volume_anomaly[1].ohlcv_history) > 60
    /\ volume_anomaly[1].score # 0

(***************************************************************************)
(* Claims about calculate_aggregated_metrics                               *)
(***************************************************************************)
MetricsOfBothSides ==
    /\ agg_metrics # <<>>
    /\ RawCount("bids") > 0
    /\ RawCount("asks") > 0
    /\ agg_calls[agg_metrics[1].call].depth_levels >= 1

C27_TotalsWhenNotThinned ==
    MetricsOfBothSides =>
        LET call == agg_calls[agg_metrics[1].call]
        IN  /\ Len(call.aggregated_bids) <= call.depth_levels =>
                  agg_metrics[1].metrics.total_bid_liquidity_usd = RawUsd("bids")
            /\ Len(call.aggregated_asks) <= call.depth_levels =>
                  agg_metrics[1].metrics.total_ask_liquidity_usd = RawUsd("asks")

(***************************************************************************)
(* Claims about the engineer's rolling windows                             *)
(***************************************************************************)
\* A step in which asset a was handed an OHLCV window of n candles, by
\* compute_anomaly_features or by compute_all_features.
Supplies(a, n) ==
    \/ Computes(a) /\ anomaly_call'[a][1].n_candles = n
    \/ Evaluates(a) /\ risk_features' # <<>>
                    /\ risk_features'[1].stablecoin = a
                    /\ risk_features'[1].n_candles = n

AppendsLiquidity(a) == n_liquidity_calls'[a] = n_liquidity_calls[a] + 1

\* The volumes of the last 1440 candles of a window.
LastVolumes(ohlcv_history) ==
    LastSlice(volumes_of(ohlcv_history), Min(1440, Max(Len(ohlcv_history), 1)))

Entry(store, a) == IF a \in DOMAIN store THEN <<store[a]>> ELSE <<>>

WindowsWithinCapacity ==
    /\ \A a \in DOMAIN historical_volumes : Len(historical_volumes[a]) <= 1440
    /\ \A a \in DOMAIN historical_liquidity :
          Len(historical_liquidity[a]) <= history_maxlen

LiquidityAppended(a) ==
    LET before == IF a \in DOMAIN historical_liquidity
                  THEN historical_liquidity[a] ELSE <<>>
        after  == historical_liquidity'[a]
    IN  /\ a \in DOMAIN historical_liquidity'
        /\ IF Len(before) = history_maxlen
           THEN /\ Len(after) = history_maxlen
                /\ SubSeq(after, 1, history_maxlen - 1) = Tail(before)
           ELSE /\ Len(after) = Len(before) + 1
                /\ SubSeq(after, 1, Len(before)) = before

Operates(a) ==
    \/ Evaluates(a)
    \/ Computes(a)
    \/ AppendsLiquidity(a)
    \/ series' # series /\ series'[1].stablecoin = a

\* C28: an operation invoked for asset A (compute_all_features,
\* compute_liquidity_features, compute_anomaly_features,
\* get_liquidity_time_series) leaves every rolling-state entry of every
\* other asset B unchanged: its deviation start time, volume window,
\* liquidity window, previous liquidity and previous price.
C28_OtherAssetsUntouched ==
    [][\A a \in Assets :
          Operates(a) =>
              \A b \in Assets \ {a} :
                  /\ Entry(deviation_start_time', b) = Entry(deviation_start_time, b)
                  /\ Entry(historical_volumes', b) = Entry(historical_volumes, b)
                  /\ Entry(historical_liquidity', b) = Entry(historical_liquidity, b)
                  /\ Entry(previous_liquidity', b) = Entry(previous_liquidity, b)
                  /\ Entry(previous_price', b) = Entry(previous_price, b)
      ]_vars

\* One asset has an entry in each of the five stores, and an operation for
\* the other asset has since written different values of its own.
C28_Witness ==
    \E a, b \in Assets :
        /\ a # b
        /\ b \in DOMAIN deviation_start_time
        /\ b \in DOMAIN historical_volumes
        /\ b \in DOMAIN historical_liquidity
        /\ b \in DOMAIN previous_liquidity
        /\ b \in DOMAIN previous_price
        /\ n_anomaly_calls[a] = 1
        /\ a \in DOMAIN historical_volumes
        /\ historical_volumes[a] # historical_volumes[b]
        /\ previous_liquidity[a] # previous_liquidity[b]
        /\ previous_price[a] # previous_price[b]

====
